---- MODULE Spec2Model ----
(***************************************************************************)
(* Model of the comparison core of dataqe_framework.                       *)
(*                                                                         *)
(* Python values are tagged records: None, int, float, str, dict.  A str   *)
(* is a sequence of one-character strings.  A float is the exact rational  *)
(* num/den it denotes (den in {1, 2, 10, 100}); floats that take part in   *)
(* arithmetic are dyadic, so subtraction is exact, and the one rounded     *)
(* computation of the code, (source - target) / target * 100, is computed  *)
(* bit by bit in IEEE-754 binary64 (53-bit significand, round half even).  *)
(***************************************************************************)
EXTENDS Integers, Sequences, FiniteSets, TLC

VARIABLES source_value, target_value, test_config, applied, pc, result

\* QueryPreprocessor: the template file found at construction, the templates
\* loaded from it, the call being made, and the queries the connector was
\* asked to execute.
VARIABLES queries_file, preprocessor_queries, call, executed

\* ValidationExecutor.run: the test cases declared, the place of the test
\* case at work, the query of the block at work, the status compared, the
\* records appended, the execute_query calls the connectors received, and the
\* blocks whose preprocessing error was caught and logged.
VARIABLES test_cases, current, query, status, results, issued, caught

\* ExecutionSummary: what constructing the summary of the results gave.
VARIABLES summary

\* The connectors of the source and the target side: the handle each one
\* holds (self.connection, self.client), and what they did to their
\* databases (connect, query, close) in the order it happened.
VARIABLES connection, events

cmpVars == <<source_value, target_value, test_config, applied>>

preVars == <<queries_file, preprocessor_queries, call, executed>>

runVars == <<test_cases, current, query, status, results, issued, caught>>

vars == <<cmpVars, preVars, runVars, summary, connection, events, pc, result>>

\* Bound of the integer results drawn for source and target values.
MaxInt == 1

\* Bound of the integer threshold limits drawn.
MaxLimit == 1

MaxPieces == 2

MaxRows == 2

MaxTests == 2

----------------------------------------------------------------------------
(* Python values *)

None == [k |-> "none"]

PyInt(n) == [k |-> "int", n |-> n]

PyFloat(num, den) == [k |-> "float", num |-> num, den |-> den]

PyStr(s) == [k |-> "str", s |-> s]

PyDict(d) == [k |-> "dict", d |-> d]

EmptyDict == PyDict(<<>>)

IsNumber(v) == v.k \in {"int", "float"}

Num(v) == IF v.k = "int" THEN v.n ELSE v.num

Den(v) == IF v.k = "int" THEN 1 ELSE v.den

RECURSIVE Pow(_, _)
Pow(b, n) == IF n = 0 THEN 1 ELSE b * Pow(b, n - 1)

\* dict.get(key, default)
Get(d, key, default) == IF key \in DOMAIN d THEN d[key] ELSE default

\* bool(v)
Truthy(v) ==
    CASE v.k = "none" -> FALSE
      [] v.k = "int" -> v.n # 0
      [] v.k = "float" -> v.num # 0
      [] v.k = "str" -> Len(v.s) > 0
      [] v.k = "dict" -> DOMAIN v.d # {}

\* Code points of the characters used.
Ord(c) ==
    CASE c = " " -> 32 [] c = "!" -> 33 [] c = "-" -> 45 [] c = "." -> 46
      [] c = "0" -> 48 [] c = "1" -> 49 [] c = "2" -> 50 [] c = "3" -> 51
      [] c = "4" -> 52 [] c = "5" -> 53 [] c = "6" -> 54 [] c = "7" -> 55
      [] c = "8" -> 56 [] c = "9" -> 57
      [] c = "<" -> 60 [] c = "=" -> 61 [] c = ">" -> 62
      [] c = "a" -> 97 [] c = "b" -> 98 [] c = "x" -> 120
      [] c = "~" -> 126

RECURSIVE StrLess(_, _)
\* str < str: lexicographic by code point
StrLess(a, b) ==
    IF Len(b) = 0 THEN FALSE
    ELSE IF Len(a) = 0 THEN TRUE
    ELSE IF Ord(Head(a)) # Ord(Head(b)) THEN Ord(Head(a)) < Ord(Head(b))
    ELSE StrLess(Tail(a), Tail(b))

\* a == b
PyEq(a, b) ==
    IF IsNumber(a) /\ IsNumber(b) THEN Num(a) * Den(b) = Num(b) * Den(a)
    ELSE IF a.k = "str" /\ b.k = "str" THEN a.s = b.s
    ELSE IF a.k = "none" /\ b.k = "none" THEN TRUE
    ELSE IF a.k = "dict" /\ b.k = "dict" THEN a.d = b.d
    ELSE FALSE

\* a < b, defined only for operands Python can order
PyLess(a, b) ==
    IF IsNumber(a) /\ IsNumber(b) THEN Num(a) * Den(b) < Num(b) * Den(a)
    ELSE StrLess(a.s, b.s)

Orderable(a, b) ==
    \/ IsNumber(a) /\ IsNumber(b)
    \/ a.k = "str" /\ b.k = "str"

Ok(v) == [ok |-> TRUE, v |-> v]

Exc(e) == [ok |-> FALSE, exc |-> e]

\* The comparison expression "a op b": a value, or the exception it raises.
PyCompare(a, op, b) ==
    IF op = "==" THEN Ok(PyEq(a, b))
    ELSE IF op = "!=" THEN Ok(~PyEq(a, b))
    ELSE IF ~Orderable(a, b) THEN Exc("TypeError")
    ELSE IF op = "<" THEN Ok(PyLess(a, b))
    ELSE IF op = ">" THEN Ok(PyLess(b, a))
    ELSE IF op = "<=" THEN Ok(~PyLess(b, a))
    ELSE Ok(~PyLess(a, b))

----------------------------------------------------------------------------
(* _parse_expected_condition *)

Chars(tok) ==
    CASE tok = "<=" -> <<"<", "=">>
      [] tok = ">=" -> <<">", "=">>
      [] tok = "==" -> <<"=", "=">>
      [] tok = "!=" -> <<"!", "=">>
      [] tok = "<" -> <<"<">>
      [] tok = ">" -> <<">">>

\* The alternation (<=|>=|==|!=|<|>) of the pattern, in its order.
OperatorAlternatives == <<"<=", ">=", "==", "!=", "<", ">">>

Operators == {OperatorAlternatives[i] : i \in DOMAIN OperatorAlternatives}

IsSpace(c) == c = " "

IsDigit(c) == c \in {"0", "1", "2", "3", "4", "5", "6", "7", "8", "9"}

DigitVal(c) == Ord(c) - 48

Drop(s, n) == SubSeq(s, n + 1, Len(s))

StartsWith(s, p) == Len(s) >= Len(p) /\ SubSeq(s, 1, Len(p)) = p

RECURSIVE LStrip(_)
LStrip(s) == IF Len(s) > 0 /\ IsSpace(Head(s)) THEN LStrip(Tail(s)) ELSE s

RECURSIVE RStrip(_)
RStrip(s) ==
    IF Len(s) > 0 /\ IsSpace(s[Len(s)]) THEN RStrip(SubSeq(s, 1, Len(s) - 1))
    ELSE s

\* str.strip()
Strip(s) == RStrip(LStrip(s))

RECURSIVE DigitRun(_)
\* length of the longest prefix matched by \d*
DigitRun(s) ==
    IF Len(s) > 0 /\ IsDigit(Head(s)) THEN 1 + DigitRun(Tail(s)) ELSE 0

RECURSIVE DigitsValue(_, _)
DigitsValue(s, acc) ==
    IF Len(s) = 0 THEN acc ELSE DigitsValue(Tail(s), 10 * acc + DigitVal(Head(s)))

\* \s*(-?\d+(?:\.\d+)?)\s*$ matched against what follows the operator;
\* the value is float(group 2).
MatchNumber(rest) ==
    LET s0 == LStrip(rest)
        neg == Len(s0) > 0 /\ Head(s0) = "-"
        s1 == IF neg THEN Tail(s0) ELSE s0
        n1 == DigitRun(s1)
        s2 == Drop(s1, n1)
        n2 == IF Len(s2) > 0 /\ Head(s2) = "." THEN DigitRun(Tail(s2)) ELSE 0
        s3 == IF n2 > 0 THEN Drop(s2, 1 + n2) ELSE s2
        digits == SubSeq(s1, 1, n1) \o (IF n2 > 0 THEN SubSeq(s2, 2, 1 + n2) ELSE <<>>)
        mag == DigitsValue(digits, 0)
    IN  IF n1 >= 1 /\ Len(LStrip(s3)) = 0
        THEN [matched |-> TRUE,
              value |-> PyFloat(IF neg THEN 0 - mag ELSE mag, Pow(10, n2))]
        ELSE [matched |-> FALSE]

RECURSIVE MatchFrom(_, _)
\* re.match tries the alternatives of the operator group from the i-th on.
MatchFrom(s, i) ==
    IF i > Len(OperatorAlternatives) THEN [operator |-> None, value |-> None]
    ELSE LET tok == OperatorAlternatives[i]
             m == IF StartsWith(s, Chars(tok))
                  THEN MatchNumber(Drop(s, Len(Chars(tok))))
                  ELSE [matched |-> FALSE]
         IN  IF m.matched THEN [operator |-> PyStr(Chars(tok)), value |-> m.value]
             ELSE MatchFrom(s, i + 1)

\* _parse_expected_condition without the strip() of the string
_parse_expected_condition_NoStrip(expected_str) ==
    IF expected_str.k # "str" THEN [operator |-> None, value |-> None]
    ELSE MatchFrom(expected_str.s, 1)

_parse_expected_condition(expected_str) ==
    IF expected_str.k # "str" THEN [operator |-> None, value |-> None]
    ELSE MatchFrom(Strip(expected_str.s), 1)

----------------------------------------------------------------------------
(* _apply_operator *)

\* _apply_operator answering true for a token that is no operator
_apply_operator_UnknownTrue(value, operator, threshold) ==
    LET toks == {t \in Operators : PyEq(operator, PyStr(Chars(t)))}
    IN  IF toks = {} THEN Ok(TRUE)
        ELSE LET r == PyCompare(value, CHOOSE t \in toks : TRUE, threshold)
             IN  IF r.ok THEN r
                 ELSE IF r.exc \in {"TypeError", "ValueError"} THEN Ok(FALSE)
                 ELSE r

\* _apply_operator without its except clause
_apply_operator_NoCatch(value, operator, threshold) ==
    LET toks == {t \in Operators : PyEq(operator, PyStr(Chars(t)))}
    IN  IF toks = {} THEN Ok(FALSE)
        ELSE PyCompare(value, CHOOSE t \in toks : TRUE, threshold)

_apply_operator(value, operator, threshold) ==
    LET toks == {t \in Operators : PyEq(operator, PyStr(Chars(t)))}
    IN  IF toks = {} THEN Ok(FALSE)
        ELSE LET r == PyCompare(value, CHOOSE t \in toks : TRUE, threshold)
             IN  IF r.ok THEN r
                 ELSE IF r.exc \in {"TypeError", "ValueError"} THEN Ok(FALSE)
                 ELSE r

----------------------------------------------------------------------------
(* IEEE-754 binary64 arithmetic on significands held as bit sequences *)

\* Width of the binary64 significand.
Precision == 53

RECURSIVE Normalize(_, _, _)
\* p/q = (n.p / n.q) * 2^(n.e) with 1 <= n.p / n.q < 2
Normalize(p, q, e) ==
    IF p >= 2 * q THEN Normalize(p, 2 * q, e + 1)
    ELSE IF p < q THEN Normalize(2 * p, q, e - 1)
    ELSE [p |-> p, q |-> q, e |-> e]

\* the n low bits of v, most significant first
FixedBits(v, n) == [i \in 1 .. n |-> (v \div Pow(2, n - i)) % 2]

RECURSIVE DivBits(_, _, _)
\* the next n bits of the binary expansion of r/q (r < q), and the
\* remainder; long division, 13 bits at a step
DivBits(r, q, n) ==
    IF n = 0 THEN [bits |-> <<>>, rem |-> r]
    ELSE LET w == IF n < 13 THEN n ELSE 13
             scaled == r * Pow(2, w)
             rest == DivBits(scaled % q, q, n - w)
         IN  [bits |-> FixedBits(scaled \div q, w) \o rest.bits, rem |-> rest.rem]

\* bits + 1; carry is set when every bit was 1
Increment(bits) ==
    LET zeros == {i \in DOMAIN bits : bits[i] = 0}
    IN  IF zeros = {} THEN [bits |-> [i \in DOMAIN bits |-> 0], carry |-> 1]
        ELSE LET j == CHOOSE i \in zeros : \A z \in zeros : z <= i
             IN  [bits |-> [i \in DOMAIN bits |->
                              IF i < j THEN bits[i] ELSE IF i = j THEN 1 ELSE 0],
                  carry |-> 0]

\* the significand m (Precision bits) rounded up or not; value 1.m * 2^e
Rounded(m, e, up) ==
    IF ~up THEN [zero |-> FALSE, m |-> m, e |-> e]
    ELSE LET r == Increment(m)
         IN  IF r.carry = 1
             THEN [zero |-> FALSE, m |-> <<1>> \o SubSeq(r.bits, 1, Precision - 1), e |-> e + 1]
             ELSE [zero |-> FALSE, m |-> r.bits, e |-> e]

FloatZero == [zero |-> TRUE]

\* p / q for p >= 0, q > 0, correctly rounded (round half to even)
FloatDiv(p, q) ==
    IF p = 0 THEN FloatZero
    ELSE LET n == Normalize(p, q, 0)
             d == DivBits(n.p - n.q, n.q, Precision - 1)
             m == <<1>> \o d.bits
             up == \/ 2 * d.rem > n.q
                   \/ 2 * d.rem = n.q /\ m[Precision] = 1
         IN  Rounded(m, n.e, up)

RECURSIVE ToBits(_)
ToBits(n) == IF n = 0 THEN <<>> ELSE ToBits(n \div 2) \o <<n % 2>>

RECURSIVE BitsValue(_)
\* the number written by bits (fewer than 31 of them)
BitsValue(bits) ==
    IF Len(bits) = 0 THEN 0
    ELSE IF Len(bits) = 1 THEN bits[1]
    ELSE LET h == Len(bits) \div 2
         IN  BitsValue(SubSeq(bits, 1, h)) * Pow(2, Len(bits) - h)
                + BitsValue(SubSeq(bits, h + 1, Len(bits)))

RECURSIVE MulBits(_, _, _)
\* bits * c + carry, exactly; schoolbook multiplication, 13 bits at a step
MulBits(bits, c, carry) ==
    IF Len(bits) = 0 THEN ToBits(carry)
    ELSE LET n == Len(bits)
             w == IF n < 13 THEN n ELSE 13
             v == BitsValue(SubSeq(bits, n - w + 1, n)) * c + carry
         IN  MulBits(SubSeq(bits, 1, n - w), c, v \div Pow(2, w))
                \o FixedBits(v % Pow(2, w), w)

\* f * c for a small integer c > 0, correctly rounded
FloatMulInt(f, c) ==
    IF f.zero THEN FloatZero
    ELSE LET prod == MulBits(f.m, c, 0)
             k == Len(prod) - Precision
             kept == SubSeq(prod, 1, Precision)
             dropped == SubSeq(prod, Precision + 1, Len(prod))
             sticky == \E i \in 2..k : dropped[i] = 1
             up == k >= 1 /\ dropped[1] = 1 /\ (sticky \/ kept[Precision] = 1)
         IN  Rounded(kept, f.e + k, up)

\* f > n for a float f >= 0 and an integer n < 2^21 (the comparison of a
\* float with an int is exact)
FloatGreaterInt(f, n) ==
    IF f.zero THEN 0 > n
    ELSE IF f.e > 20 THEN TRUE
    ELSE LET ibits == IF f.e < 0 THEN <<>> ELSE SubSeq(f.m, 1, f.e + 1)
             fbits == IF f.e < 0 THEN f.m ELSE SubSeq(f.m, f.e + 2, Precision)
             ipart == BitsValue(ibits)
             frac == \E i \in DOMAIN fbits : fbits[i] = 1
         IN  ipart > n \/ (ipart = n /\ frac)

----------------------------------------------------------------------------
(* compare_values *)

PASS == "PASS"

FAIL == "FAIL"

Percentage == PyStr(<<"p", "e", "r", "c", "e", "n", "t", "a", "g", "e">>)

Absolute == PyStr(<<"a", "b", "s", "o", "l", "u", "t", "e">>)

Abs(n) == IF n < 0 THEN 0 - n ELSE n

\* a - b: the exact difference as a rational, or TypeError
PySub(a, b) ==
    IF IsNumber(a) /\ IsNumber(b)
    THEN Ok([num |-> Num(a) * Den(b) - Num(b) * Den(a), den |-> Den(a) * Den(b)])
    ELSE Exc("TypeError")

\* abs(d / b) for a difference d: a binary64 float, or ZeroDivisionError
PyAbsDiv(d, b) ==
    IF Num(b) = 0 THEN Exc("ZeroDivisionError")
    ELSE Ok(FloatDiv(Abs(d.num * Den(b)), Abs(d.den * Num(b))))

\* f > limit for a float f >= 0
FloatGreater(f, limit) ==
    IF limit.k = "int" THEN Ok(FloatGreaterInt(f, limit.n))
    ELSE IF limit.k = "float" /\ limit.den \in {1, 2}
    THEN Ok(FloatGreaterInt(IF f.zero THEN f ELSE [f EXCEPT !.e = @ + limit.den - 1],
                            limit.num))
    ELSE Exc("TypeError")

\* the absolute bound taken exclusive: the test fails when abs(d) >= limit
DiffGreater_OrEqual(d, limit) ==
    IF IsNumber(limit) THEN Ok(Abs(d.num) * Den(limit) >= Num(limit) * d.den)
    ELSE Exc("TypeError")

\* abs(d) > limit for an exact difference d
DiffGreater(d, limit) ==
    IF IsNumber(limit) THEN Ok(Abs(d.num) * Den(limit) > Num(limit) * d.den)
    ELSE Exc("TypeError")

\* a try block whose except clause catches nothing
CatchFail_Nothing(r) == r

\* except (TypeError, ValueError): return "FAIL"
CatchFail(r) ==
    IF r.ok THEN r
    ELSE IF r.exc \in {"TypeError", "ValueError"} THEN Ok(FAIL)
    ELSE r

\* the percentage try block without the test for a zero target
PercentageBody_NoZeroGuard(source, target, threshold_limit) ==
    LET d == PySub(source, target)
    IN  IF ~d.ok THEN d
        ELSE LET q == PyAbsDiv(d.v, target)
             IN  IF ~q.ok THEN q
                 ELSE LET percentage_diff == FloatMulInt(q.v, 100)
                          gt == FloatGreater(percentage_diff, threshold_limit)
                      IN  IF ~gt.ok THEN gt
                          ELSE Ok(IF gt.v THEN FAIL ELSE PASS)

\* the try block of the percentage-based threshold
PercentageBody(source, target, threshold_limit) ==
    IF PyEq(target, PyInt(0))
    THEN Ok(IF ~PyEq(source, target) THEN FAIL ELSE PASS)
    ELSE LET d == PySub(source, target)
         IN  IF ~d.ok THEN d
             ELSE LET q == PyAbsDiv(d.v, target)
                  IN  IF ~q.ok THEN q
                      ELSE LET percentage_diff == FloatMulInt(q.v, 100)
                               gt == FloatGreater(percentage_diff, threshold_limit)
                           IN  IF ~gt.ok THEN gt
                               ELSE Ok(IF gt.v THEN FAIL ELSE PASS)

\* the try block of the absolute threshold
AbsoluteBody(source, target, threshold_limit) ==
    LET d == PySub(source, target)
    IN  IF ~d.ok THEN d
        ELSE LET gt == DiffGreater(d.v, threshold_limit)
             IN  IF ~gt.ok THEN gt
                 ELSE Ok(IF gt.v THEN FAIL ELSE PASS)

\* the threshold rules with the condition rule not inverted
ThresholdRules_NotInverted(source, target, threshold) ==
    IF threshold.k # "dict" THEN Exc("AttributeError")
    ELSE LET condition == Get(threshold.d, "condition", None)
             threshold_value == Get(threshold.d, "value", None)
             threshold_limit == Get(threshold.d, "limit", None)
         IN  IF Truthy(condition) /\ ~Truthy(threshold_value)
             THEN LET r == _apply_operator(source, condition, target)
                  IN  IF ~r.ok THEN r ELSE Ok(IF r.v THEN PASS ELSE FAIL)
             ELSE IF PyEq(threshold_value, Percentage) /\ threshold_limit # None
             THEN CatchFail(PercentageBody(source, target, threshold_limit))
             ELSE IF PyEq(threshold_value, Absolute) /\ threshold_limit # None
             THEN CatchFail(AbsoluteBody(source, target, threshold_limit))
             ELSE Ok(FAIL)

\* the threshold rules ending in PASS when no rule applies
ThresholdRules_DefaultPass(source, target, threshold) ==
    IF threshold.k # "dict" THEN Exc("AttributeError")
    ELSE LET condition == Get(threshold.d, "condition", None)
             threshold_value == Get(threshold.d, "value", None)
             threshold_limit == Get(threshold.d, "limit", None)
         IN  IF Truthy(condition) /\ ~Truthy(threshold_value)
             THEN LET r == _apply_operator(source, condition, target)
                  IN  IF ~r.ok THEN r ELSE Ok(IF r.v THEN FAIL ELSE PASS)
             ELSE IF PyEq(threshold_value, Percentage) /\ threshold_limit # None
             THEN CatchFail(PercentageBody(source, target, threshold_limit))
             ELSE IF PyEq(threshold_value, Absolute) /\ threshold_limit # None
             THEN CatchFail(AbsoluteBody(source, target, threshold_limit))
             ELSE Ok(PASS)

\* the threshold rules with condition mode taken whenever a condition is set
ThresholdRules_ConditionFirst(source, target, threshold) ==
    IF threshold.k # "dict" THEN Exc("AttributeError")
    ELSE LET condition == Get(threshold.d, "condition", None)
             threshold_value == Get(threshold.d, "value", None)
             threshold_limit == Get(threshold.d, "limit", None)
         IN  IF Truthy(condition)
             THEN LET r == _apply_operator(source, condition, target)
                  IN  IF ~r.ok THEN r ELSE Ok(IF r.v THEN FAIL ELSE PASS)
             ELSE IF PyEq(threshold_value, Percentage) /\ threshold_limit # None
             THEN CatchFail(PercentageBody(source, target, threshold_limit))
             ELSE IF PyEq(threshold_value, Absolute) /\ threshold_limit # None
             THEN CatchFail(AbsoluteBody(source, target, threshold_limit))
             ELSE Ok(FAIL)

\* the body of "if threshold:"; without a matching rule it falls to the
\* final return "FAIL"
ThresholdRules(source, target, threshold) ==
    IF threshold.k # "dict" THEN Exc("AttributeError")
    ELSE LET condition == Get(threshold.d, "condition", None)
             threshold_value == Get(threshold.d, "value", None)
             threshold_limit == Get(threshold.d, "limit", None)
         IN  IF Truthy(condition) /\ ~Truthy(threshold_value)
             THEN LET r == _apply_operator(source, condition, target)
                  IN  IF ~r.ok THEN r ELSE Ok(IF r.v THEN FAIL ELSE PASS)
             ELSE IF PyEq(threshold_value, Percentage) /\ threshold_limit # None
             THEN CatchFail(PercentageBody(source, target, threshold_limit))
             ELSE IF PyEq(threshold_value, Absolute) /\ threshold_limit # None
             THEN CatchFail(AbsoluteBody(source, target, threshold_limit))
             ELSE Ok(FAIL)

\* the source-only branch with the fallback passing whatever is not None
SourceOnly_NotNone(source, source_config) ==
    IF source_config.k # "dict" THEN Exc("AttributeError")
    ELSE LET expected == Get(source_config.d, "expected", None)
             parsed == _parse_expected_condition(expected)
         IN  IF Truthy(parsed.operator) /\ parsed.value # None
             THEN LET r == _apply_operator(source, parsed.operator, parsed.value)
                  IN  IF ~r.ok THEN r ELSE Ok(IF r.v THEN PASS ELSE FAIL)
             ELSE Ok(IF source # None THEN PASS ELSE FAIL)

\* the source-only branch (target_value is None)
SourceOnly(source, source_config) ==
    IF source_config.k # "dict" THEN Exc("AttributeError")
    ELSE LET expected == Get(source_config.d, "expected", None)
             parsed == _parse_expected_condition(expected)
         IN  IF Truthy(parsed.operator) /\ parsed.value # None
             THEN LET r == _apply_operator(source, parsed.operator, parsed.value)
                  IN  IF ~r.ok THEN r ELSE Ok(IF r.v THEN PASS ELSE FAIL)
             ELSE Ok(IF Truthy(source) THEN PASS ELSE FAIL)

\* compare_values without the equality test before the threshold rules
compare_values_NoShortCircuit(source, target, config) ==
    LET comparisons == Get(config, "comparisons", EmptyDict)
        source_config == Get(config, "source", EmptyDict)
    IN  IF target = None THEN SourceOnly(source, source_config)
        ELSE IF comparisons.k # "dict" THEN Exc("AttributeError")
        ELSE LET threshold == Get(comparisons.d, "threshold", None)
             IN  IF Truthy(threshold) THEN ThresholdRules(source, target, threshold)
                 ELSE Ok(FAIL)

\* compare_values(source_value, target_value, test_config): Ok(verdict), or
\* Exc(e) when the call raises e
compare_values(source, target, config) ==
    LET comparisons == Get(config, "comparisons", EmptyDict)
        source_config == Get(config, "source", EmptyDict)
    IN  IF target = None THEN SourceOnly(source, source_config)
        ELSE IF PyEq(source, target) THEN Ok(PASS)
        ELSE IF comparisons.k # "dict" THEN Exc("AttributeError")
        ELSE LET threshold == Get(comparisons.d, "threshold", None)
             IN  IF Truthy(threshold) THEN ThresholdRules(source, target, threshold)
                 ELSE Ok(FAIL)

----------------------------------------------------------------------------
(* Inputs *)

Absent == [k |-> "absent"]

\* the dict holding the entries of f that are not Absent
MkDict(f) == [key \in {x \in DOMAIN f : f[x].k # "absent"} |-> f[key]]

IntVals == (-MaxInt .. MaxInt) \cup {5, 16}

\* Values a query result can hold: NULL, integers, the floats 2.5 and 1.0,
\* strings.
Values ==
    {None} \cup {PyInt(n) : n \in IntVals} \cup {PyFloat(5, 2), PyFloat(1, 1)}
           \cup {PyStr(<<>>), PyStr(<<"a">>)}

RECURSIVE Digits(_)
\* decimal digits of n >= 0
Digits(n) ==
    IF n < 10 THEN <<SubSeq(<<"0", "1", "2", "3", "4", "5", "6", "7", "8", "9">>, n + 1, n + 1)[1]>>
    ELSE Digits(n \div 10) \o Digits(n % 10)

\* the decimal numeral of m / 10^f, f in {0, 1}
Numeral(m, f) ==
    LET ds == Digits(Abs(m))
        padded == IF Len(ds) <= f THEN <<"0">> \o ds ELSE ds
        n == Len(padded)
        body == IF f = 0 THEN padded
                ELSE SubSeq(padded, 1, n - f) \o <<".">> \o SubSeq(padded, n - f + 1, n)
    IN  (IF m < 0 THEN <<"-">> ELSE <<>>) \o body

\* the numbers <m, f> = m / 10^f written in condition strings
ConditionNumbers ==
    {<<n, 0>> : n \in -MaxInt .. MaxInt} \cup {<<25, 1>>, <<5, 1>>, <<-5, 1>>}

\* the condition string: operator, number, and surrounding white space
ConditionString(tok, num, sp) ==
    sp \o Chars(tok) \o sp \o Numeral(num[1], num[2]) \o sp

WellFormedExpected ==
    {PyStr(ConditionString(tok, num, sp)) :
        tok \in Operators, num \in ConditionNumbers, sp \in {<<>>, <<" ">>}}

\* expected settings that are not condition strings
OtherExpected ==
    {PyStr(<<>>), PyStr(<<"a">>), PyStr(<<"<">>), PyStr(<<"<", "=">>),
     PyStr(<<"2">>), PyStr(<<"=", "2">>), PyStr(<<"<", "=", "2", "x">>),
     PyStr(<<"<", "=", ".", "5">>), PyStr(<<"<", "=", "2", ".">>),
     PyStr(<<"<", ">", "2">>), PyStr(<<"=", "<", "2">>),
     PyStr(<<"<", " ", "=", "2">>), PyStr(<<"<", "=", "-", "-", "1">>),
     PyStr(<<"<", "=", "2", " ", "2">>), PyInt(2), PyInt(0)}

ExpectedDrawn == WellFormedExpected \cup OtherExpected

\* the source block: a mapping with or without expected, or null
SourceBlocks ==
    {EmptyDict, None} \cup {PyDict([expected |-> e]) : e \in ExpectedDrawn}

ConditionsDrawn ==
    {Absent, PyStr(<<>>), PyStr(<<"~">>), PyInt(1)}
        \cup {PyStr(Chars(tok)) : tok \in Operators}

ThresholdValuesDrawn == {Absent, PyStr(<<>>), Percentage, Absolute, PyStr(<<"x">>)}

LimitsDrawn ==
    {Absent, PyStr(<<"5">>), PyInt(220)} \cup {PyInt(n) : n \in 0 .. MaxLimit}

\* the threshold entry: a mapping, empty, null, or not a mapping
ThresholdsDrawn ==
    {PyDict(MkDict([condition |-> c, value |-> v, limit |-> l])) :
        c \in ConditionsDrawn, v \in ThresholdValuesDrawn, l \in LimitsDrawn}
        \cup {None, PyStr(<<"5">>), PyInt(0)}

\* the comparisons block: a mapping with or without threshold, or null
ComparisonsBlocks ==
    {EmptyDict, None} \cup {PyDict([threshold |-> t]) : t \in ThresholdsDrawn}

\* blocks drawn where the branch taken does not read them
FewSourceBlocks ==
    {Absent, None, PyDict([expected |-> PyStr(<<"<", "=", "2">>)])}

FewComparisonsBlocks ==
    {Absent, None, PyDict([threshold |-> PyDict([condition |-> PyStr(<<">">>)])])}

Pending == Ok("pending")

NoCall == [op |-> "none"]

\* no preprocessor is constructed and no call is made
PreIdle ==
    /\ queries_file = Absent
    /\ preprocessor_queries = <<>>
    /\ call = NoCall
    /\ executed = <<>>

\* no run is started
RunIdle ==
    /\ test_cases = <<>>
    /\ current = 0
    /\ query = <<>>
    /\ status = None
    /\ results = <<>>
    /\ issued = <<>>
    /\ caught = {}

\* no summary is constructed
SumIdle == summary = None

Sides == {"source", "target"}

\* the connectors as constructed: no handle, nothing done
ConIdle ==
    /\ connection = [on \in Sides |-> None]
    /\ events = <<>>

----------------------------------------------------------------------------
(* compare_values applied to drawn inputs *)

Init ==
    /\ source_value \in Values
    /\ \/ /\ target_value = None
          /\ \E s \in SourceBlocks \cup {Absent}, c \in FewComparisonsBlocks :
                test_config = MkDict([source |-> s, comparisons |-> c])
       \/ /\ target_value \in Values \ {None}
          /\ \E s \in FewSourceBlocks, c \in ComparisonsBlocks \cup {Absent} :
                test_config = MkDict([source |-> s, comparisons |-> c])
    /\ applied = None
    /\ pc = "start"
    /\ result = Pending
    /\ PreIdle
    /\ RunIdle
    /\ SumIdle
    /\ ConIdle

Compare ==
    /\ pc = "start"
    /\ result' = compare_values(source_value, target_value, test_config)
    /\ pc' = "done"
    /\ UNCHANGED <<source_value, target_value, test_config, applied>>
    /\ UNCHANGED preVars
    /\ UNCHANGED runVars
    /\ UNCHANGED <<summary, connection, events>>

Next == Compare

Spec == Init /\ [][Next]_vars

----------------------------------------------------------------------------
(* _apply_operator applied to drawn operands *)

\* right operands: a target value, or the float of a parsed condition
Thresholds == Values \cup {PyFloat(2, 1), PyFloat(5, 10)}

\* operator tokens: the six operators, and tokens that are none of them
OperatorsDrawn ==
    {PyStr(Chars(tok)) : tok \in Operators} \cup {PyStr(<<"~">>), PyStr(<<"=">>), None}

InitApply ==
    /\ source_value \in Values
    /\ target_value \in Thresholds
    /\ test_config = <<>>
    /\ applied = None
    /\ pc = "start"
    /\ result = Pending
    /\ PreIdle
    /\ RunIdle
    /\ SumIdle
    /\ ConIdle

ApplyOperator ==
    /\ pc = "start"
    /\ \E op \in OperatorsDrawn :
          /\ applied' = op
          /\ result' = _apply_operator(source_value, op, target_value)
    /\ pc' = "done"
    /\ UNCHANGED <<source_value, target_value, test_config>>
    /\ UNCHANGED preVars
    /\ UNCHANGED runVars
    /\ UNCHANGED <<summary, connection, events>>

NextApply == ApplyOperator

SpecApply == InitApply /\ [][NextApply]_vars

----------------------------------------------------------------------------
(* QueryPreprocessor *)

LowerCase ==
    <<"a", "b", "c", "d", "e", "f", "g", "h", "i", "j", "k", "l", "m",
      "n", "o", "p", "q", "r", "s", "t", "u", "v", "w", "x", "y", "z">>

UpperCase ==
    <<"A", "B", "C", "D", "E", "F", "G", "H", "I", "J", "K", "L", "M",
      "N", "O", "P", "Q", "R", "S", "T", "U", "V", "W", "X", "Y", "Z">>

\* str.upper()
Upper(s) ==
    [i \in DOMAIN s |->
        IF \E j \in DOMAIN LowerCase : LowerCase[j] = s[i]
        THEN UpperCase[CHOOSE j \in DOMAIN LowerCase : LowerCase[j] = s[i]]
        ELSE s[i]]

CurrWeek == <<"_", "C", "U", "R", "R", "_", "W", "E", "E", "K">>

PrevWeek == <<"_", "P", "R", "E", "V", "_", "W", "E", "E", "K">>

\* the places where old occurs in s
Occurrences(s, old) ==
    {i \in 1 .. Len(s) - Len(old) + 1 : SubSeq(s, i, i + Len(old) - 1) = old}

RECURSIVE StrReplace(_, _, _)
\* str.replace(old, new) for a non-empty old: the occurrences are replaced
\* from the left, without overlap
StrReplace(s, old, new) ==
    IF Occurrences(s, old) = {} THEN s
    ELSE LET i == CHOOSE j \in Occurrences(s, old) :
                     \A h \in Occurrences(s, old) : j <= h
         IN  SubSeq(s, 1, i - 1) \o new
                \o StrReplace(Drop(s, i + Len(old) - 1), old, new)

\* a or b
PyOr(a, b) == IF Truthy(a) THEN a ELSE b

\* _load_preprocessor_queries: the templates held after construction
LoadQueries(file) ==
    IF file.k \in {"absent", "nopath"} THEN <<>>
    ELSE IF Truthy(file) THEN file.d
    ELSE <<>>

\* the dict d with d[key] = value
DictPut(d, key, value) ==
    [x \in DOMAIN d \cup {key} |-> IF x = key THEN value ELSE d[x]]

\* the entry built from a result row, the releases read under either naming
EntryOf(row) ==
    LET current_release == PyOr(Get(row, "current_release", None),
                                Get(row, "curr_release_label", None))
        previous_release == PyOr(Get(row, "previous_release", None),
                                 Get(row, "prev_release_label", None))
    IN  [current_release |-> current_release,
         previous_release |-> previous_release]

\* AddRow keeping the entry a source already has
AddRow_FirstWins(mappings, row) ==
    IF row.k # "dict" THEN Exc("TypeError")
    ELSE IF "source" \in DOMAIN row.d /\ row.d["source"] \notin DOMAIN mappings
    THEN Ok(DictPut(mappings, row.d["source"], EntryOf(row.d)))
    ELSE Ok(mappings)

\* the mappings with the entry of a result row added, or the exception
\* raised by a row that is not a mapping
AddRow(mappings, row) ==
    IF row.k # "dict" THEN Exc("TypeError")
    ELSE IF "source" \in DOMAIN row.d
    THEN Ok(DictPut(mappings, row.d["source"], EntryOf(row.d)))
    ELSE Ok(mappings)

RECURSIVE BuildMappings(_, _)
\* the loop over the result rows, from mappings built so far
BuildMappings(rows, mappings) ==
    IF Len(rows) = 0 THEN Ok(mappings)
    ELSE LET r == AddRow(mappings, Head(rows))
         IN  IF ~r.ok THEN r ELSE BuildMappings(Tail(rows), r.v)

\* get_dataset_mappings that looks the template up without asking for it
get_dataset_mappings_KeyError(templates, config_query_key, reply) ==
    IF DOMAIN templates = {} THEN [res |-> Ok(<<>>), executed |-> <<>>]
    ELSE IF config_query_key \notin DOMAIN templates
    THEN [res |-> Exc("KeyError"), executed |-> <<>>]
    ELSE LET template == templates[config_query_key]
         IN  [res |-> IF ~reply.ok THEN reply ELSE BuildMappings(reply.v, <<>>),
              executed |-> <<template>>]

\* get_dataset_mappings(config_query_key, connector) with the templates held
\* and the connector's reply to execute_query: the value returned or the
\* exception raised, and the queries executed
get_dataset_mappings(templates, config_query_key, reply) ==
    IF DOMAIN templates = {} THEN [res |-> Ok(<<>>), executed |-> <<>>]
    ELSE IF config_query_key \notin DOMAIN templates
    THEN [res |-> Ok(<<>>), executed |-> <<>>]
    ELSE LET template == templates[config_query_key]
         IN  [res |-> IF ~reply.ok THEN reply ELSE BuildMappings(reply.v, <<>>),
              executed |-> <<template>>]

\* replace_placeholders_in_query matching the source name as written
replace_placeholders_in_query_NoUpper(q, name, m) ==
    IF DOMAIN m = {} \/ name \notin DOMAIN m THEN Ok(q)
    ELSE LET mapping == m[name]
             current_release == Get(mapping, "current_release", None)
             previous_release == Get(mapping, "previous_release", None)
         IN  IF ~Truthy(current_release) \/ ~Truthy(previous_release) THEN Ok(q)
             ELSE IF name.k # "str" THEN Exc("AttributeError")
             ELSE IF current_release.k # "str" \/ previous_release.k # "str"
             THEN Exc("TypeError")
             ELSE Ok(StrReplace(StrReplace(q, name.s \o CurrWeek,
                                           current_release.s),
                                name.s \o PrevWeek, previous_release.s))

\* replace_placeholders_in_query that asks only for the current release
replace_placeholders_in_query_OnlyCurrent(q, name, m) ==
    IF DOMAIN m = {} \/ name \notin DOMAIN m THEN Ok(q)
    ELSE LET mapping == m[name]
             current_release == Get(mapping, "current_release", None)
             previous_release == Get(mapping, "previous_release", None)
         IN  IF ~Truthy(current_release) THEN Ok(q)
             ELSE IF name.k # "str" THEN Exc("AttributeError")
             ELSE IF current_release.k # "str" \/ previous_release.k # "str"
             THEN Exc("TypeError")
             ELSE LET source_upper == Upper(name.s)
                  IN  Ok(StrReplace(StrReplace(q, source_upper \o CurrWeek,
                                               current_release.s),
                                    source_upper \o PrevWeek, previous_release.s))

\* replace_placeholders_in_query(query, source_name, mappings)
replace_placeholders_in_query(q, name, m) ==
    IF DOMAIN m = {} \/ name \notin DOMAIN m THEN Ok(q)
    ELSE LET mapping == m[name]
             current_release == Get(mapping, "current_release", None)
             previous_release == Get(mapping, "previous_release", None)
         IN  IF ~Truthy(current_release) \/ ~Truthy(previous_release) THEN Ok(q)
             ELSE IF name.k # "str" THEN Exc("AttributeError")
             ELSE IF current_release.k # "str" \/ previous_release.k # "str"
             THEN Exc("TypeError")
             ELSE LET source_upper == Upper(name.s)
                  IN  Ok(StrReplace(StrReplace(q, source_upper \o CurrWeek,
                                               current_release.s),
                                    source_upper \o PrevWeek, previous_release.s))

\* process_query that fetches the mappings whatever the key
process_query_NoFastPath(templates, q, config_query_key, name, reply) ==
    LET g == get_dataset_mappings(templates, config_query_key, reply)
    IN  IF ~g.res.ok THEN g
        ELSE IF DOMAIN g.res.v = {} \/ ~Truthy(name)
        THEN [res |-> Ok(q), executed |-> g.executed]
        ELSE [res |-> replace_placeholders_in_query(q, name, g.res.v),
              executed |-> g.executed]

\* process_query that refuses a call without a source name
process_query_RequiresName(templates, q, config_query_key, name, reply) ==
    IF ~Truthy(config_query_key) THEN [res |-> Ok(q), executed |-> <<>>]
    ELSE LET g == get_dataset_mappings(templates, config_query_key, reply)
         IN  IF ~g.res.ok THEN g
             ELSE IF ~Truthy(name)
             THEN [res |-> Exc("ValueError"), executed |-> g.executed]
             ELSE [res |-> replace_placeholders_in_query(q, name, g.res.v),
                   executed |-> g.executed]

\* process_query(query, config_query_key, source_name, connector)
process_query(templates, q, config_query_key, name, reply) ==
    IF ~Truthy(config_query_key) THEN [res |-> Ok(q), executed |-> <<>>]
    ELSE LET g == get_dataset_mappings(templates, config_query_key, reply)
         IN  IF ~g.res.ok THEN g
             ELSE IF DOMAIN g.res.v = {} \/ ~Truthy(name)
             THEN [res |-> Ok(q), executed |-> g.executed]
             ELSE [res |-> replace_placeholders_in_query(q, name, g.res.v),
                   executed |-> g.executed]

----------------------------------------------------------------------------
(* ValidationExecutor *)

\* no preprocessor_queries_path was given: the executor holds no preprocessor
NoPath == [k |-> "nopath"]

\* _extract_value(result): the first column of the first row, None when
\* there is no row; the rows drawn hold one column
_extract_value(rows) ==
    IF Len(rows) = 0 THEN Ok(None)
    ELSE IF rows[1].k # "dict" THEN Exc("AttributeError")
    ELSE IF DOMAIN rows[1].d = {} THEN Exc("IndexError")
    ELSE Ok(rows[1].d[CHOOSE column \in DOMAIN rows[1].d : TRUE])

\* _process_query_with_preprocessor letting the error of the preprocessor out
_process_query_with_preprocessor_NoCatch(file, templates, q, config_block, reply) ==
    LET config_query_key == Get(config_block, "config_query_key", None)
    IN  IF ~Truthy(config_query_key)
        THEN [res |-> Ok(q), executed |-> <<>>, caught |-> FALSE]
        ELSE IF file = NoPath
        THEN [res |-> Ok(q), executed |-> <<>>, caught |-> FALSE]
        ELSE LET source_name == Get(config_block, "source_name", None)
                 r == process_query(templates, q, config_query_key,
                                    source_name, reply)
             IN  [res |-> r.res, executed |-> r.executed, caught |-> FALSE]

\* _process_query_with_preprocessor(query, config_block, connector) of an
\* executor built with the template file and holding the templates: the
\* query returned, the queries executed on the connector, and whether an
\* error of the preprocessor was caught
_process_query_with_preprocessor(file, templates, q, config_block, reply) ==
    LET config_query_key == Get(config_block, "config_query_key", None)
    IN  IF ~Truthy(config_query_key)
        THEN [res |-> Ok(q), executed |-> <<>>, caught |-> FALSE]
        ELSE IF file = NoPath
        THEN [res |-> Ok(q), executed |-> <<>>, caught |-> FALSE]
        ELSE LET source_name == Get(config_block, "source_name", None)
                 r == process_query(templates, q, config_query_key,
                                    source_name, reply)
             IN  IF r.res.ok
                 THEN [res |-> r.res, executed |-> r.executed, caught |-> FALSE]
                 ELSE [res |-> Ok(q), executed |-> r.executed, caught |-> TRUE]

\* Record with the two values in each other's place
Record_SwapsValues(test_name, cfg, source, target, verdict) ==
    [test_name |-> test_name,
     severity |-> Get(cfg, "severity", None),
     source_value |-> target,
     target_value |-> source,
     status |-> verdict]

\* the record run appends for a test case
Record(test_name, cfg, source, target, verdict) ==
    [test_name |-> test_name,
     severity |-> Get(cfg, "severity", None),
     source_value |-> source,
     target_value |-> target,
     status |-> verdict]

\* an execute_query call a connector received
Issue(test, on, step, q, ok) ==
    [test |-> test, on |-> on, step |-> step, query |-> q, ok |-> ok]

\* AfterSource leaving the target block out
AfterSource_SkipsTarget(cfg) == "compare"

\* where a test case goes after its source block
AfterSource(cfg) == IF "target" \in DOMAIN cfg THEN "target_pre" ELSE "compare"

\* where a test case begins
FirstStep(cfg) == IF "source" \in DOMAIN cfg THEN "source_pre" ELSE AfterSource(cfg)

AfterQuery(on, cfg) == IF on = "source" THEN AfterSource(cfg) ELSE "compare"

----------------------------------------------------------------------------
(* Calls of the preprocessor on drawn inputs *)

RECURSIVE Concat(_)
\* the pieces joined
Concat(pieces) ==
    IF Len(pieces) = 0 THEN <<>> ELSE Head(pieces) \o Concat(Tail(pieces))

\* sequences over S of length at most n
RECURSIVE SeqsUpTo(_, _)
SeqsUpTo(S, n) ==
    IF n = 0 THEN {<<>>}
    ELSE LET shorter == SeqsUpTo(S, n - 1)
         IN  shorter \cup {Append(t, x) : t \in shorter, x \in S}

\* Pieces of query text: the two placeholders of source pf, a text that
\* turns them into the placeholders of source a_pf, and other text.
Pieces ==
    { <<"P", "F">> \o CurrWeek, <<"P", "F">> \o PrevWeek,
      <<"A", "_">>, <<"s", " ">> }

Queries == {Concat(ps) : ps \in SeqsUpTo(Pieces, MaxPieces)}

SourceNames == {PyStr(<<"p", "f">>), PyStr(<<"a", "_", "p", "f">>)}

CurrentName == PyStr(<<"r", "2">>)

PreviousName == PyStr(<<"r", "1">>)

\* Entries of a mappings argument: each release value missing, null, empty
\* or a dataset name.
Entries ==
    {MkDict([current_release |-> c, previous_release |-> p]) :
        c \in {Absent, None, PyStr(<<>>), CurrentName},
        p \in {Absent, None, PyStr(<<>>), PreviousName}}

MappingsDrawn ==
    UNION {[names -> Entries] : names \in SUBSET SourceNames}

\* A result row: with or without a source, the releases under either
\* naming or under both.
RowOf(source, naming, c, p) ==
    MkDict([source |-> source,
            current_release |-> IF naming = "label" THEN Absent ELSE c,
            previous_release |-> IF naming = "label" THEN Absent ELSE p,
            curr_release_label |->
                IF naming = "release" THEN Absent
                ELSE IF naming = "label" THEN c ELSE PreviousName,
            prev_release_label |->
                IF naming = "release" THEN Absent
                ELSE IF naming = "label" THEN p ELSE CurrentName])

Namings == {"release", "label", "both"}

Rows ==
    {PyDict(RowOf(s, n, c, p)) :
        s \in SourceNames \cup {Absent}, n \in Namings,
        c \in {None, PyStr(<<>>), CurrentName},
        p \in {None, PyStr(<<>>), PreviousName}}
    \cup {None}

ConnectorError == Exc("RuntimeError")

\* What execute_query can answer: rows, or an exception of the connector.
Replies == {Ok(rows) : rows \in SeqsUpTo(Rows, MaxRows)} \cup {ConnectorError}

\* a reply whose one row gives source pf both release names
CompleteReply ==
    Ok(<<PyDict(RowOf(PyStr(<<"p", "f">>), "release", CurrentName,
                      PreviousName))>>)

FewReplies ==
    { Ok(<<>>), ConnectorError, Ok(<<None>>), CompleteReply,
      Ok(<<PyDict(RowOf(PyStr(<<"p", "f">>), "label", CurrentName, None))>>),
      Ok(<<PyDict(RowOf(Absent, "release", CurrentName, PreviousName))>>),
      Ok(<<PyDict(RowOf(PyStr(<<"a", "_", "p", "f">>), "label", CurrentName,
                        PreviousName))>>) }

Template == <<"q", "1">>

EmptyKeyTemplate == <<"q", "0">>

\* The templates of a file: one under key k, one under the empty key.
Templates ==
    [key \in {PyStr(<<"k">>), PyStr(<<>>)} |->
        IF key = PyStr(<<"k">>) THEN Template ELSE EmptyKeyTemplate]

\* The template file at construction: missing, empty, or holding templates.
Files == {Absent, None, PyDict(Templates)}

KeysDrawn == {None, PyStr(<<>>), PyStr(<<"k">>), PyStr(<<"j">>)}

InitPre ==
    /\ source_value = None
    /\ target_value = None
    /\ test_config = <<>>
    /\ applied = None
    /\ queries_file \in Files
    /\ preprocessor_queries = LoadQueries(queries_file)
    /\ call = NoCall
    /\ executed = <<>>
    /\ RunIdle
    /\ SumIdle
    /\ ConIdle
    /\ pc = "start"
    /\ result = Pending

ReplacePlaceholders ==
    /\ pc = "start"
    /\ \E q \in Queries, name \in SourceNames \cup {None}, m \in MappingsDrawn :
          /\ call' = [op |-> "replace_placeholders_in_query", query |-> q,
                      source_name |-> name, mappings |-> m]
          /\ result' = replace_placeholders_in_query(q, name, m)
    /\ pc' = "done"
    /\ UNCHANGED <<summary, connection, events>>
    /\ UNCHANGED <<cmpVars, runVars, queries_file, preprocessor_queries,
                   executed>>

GetDatasetMappings ==
    /\ pc = "start"
    /\ \E key \in KeysDrawn :
         \E reply \in (IF key \in DOMAIN preprocessor_queries
                       THEN Replies ELSE {Ok(<<>>), ConnectorError}) :
            LET g == get_dataset_mappings(preprocessor_queries, key, reply)
            IN  /\ call' = [op |-> "get_dataset_mappings",
                            config_query_key |-> key, reply |-> reply]
                /\ result' = g.res
                /\ executed' = g.executed
    /\ pc' = "done"
    /\ UNCHANGED <<summary, connection, events>>
    /\ UNCHANGED <<cmpVars, runVars, queries_file, preprocessor_queries>>

ProcessQuery ==
    /\ pc = "start"
    /\ \E q \in Queries, key \in KeysDrawn, reply \in FewReplies,
          name \in SourceNames \cup {None, PyStr(<<>>)} :
            LET r == process_query(preprocessor_queries, q, key, name, reply)
            IN  /\ call' = [op |-> "process_query", query |-> q,
                            config_query_key |-> key, source_name |-> name,
                            reply |-> reply]
                /\ result' = r.res
                /\ executed' = r.executed
    /\ pc' = "done"
    /\ UNCHANGED <<summary, connection, events>>
    /\ UNCHANGED <<cmpVars, runVars, queries_file, preprocessor_queries>>

NextPre == ReplacePlaceholders \/ GetDatasetMappings \/ ProcessQuery

SpecPre == InitPre /\ [][NextPre]_vars

----------------------------------------------------------------------------
(* A run of the executor over drawn test cases *)

SourceText == PyStr(<<"s", " ", "P", "F">> \o CurrWeek)

TargetText == PyStr(<<"t", " ", "P", "F">> \o PrevWeek)

Critical == PyStr(<<"c", "r", "i", "t", "i", "c", "a", "l">>)

Low == PyStr(<<"l", "o", "w">>)

\* A block with its query, with or without the fields of the preprocessor.
Block(q, key, name) ==
    PyDict(MkDict([query |-> q, config_query_key |-> key, source_name |-> name]))

\* Test cases: a preprocessed source block with a plain target block; a
\* source block alone with an expected condition; a preprocessed target
\* block alone.
Tests ==
    { [name |-> "t1",
       config |-> [source |-> Block(SourceText, PyStr(<<"k">>), PyStr(<<"p", "f">>)),
                   target |-> Block(TargetText, Absent, Absent),
                   severity |-> Critical]],
      [name |-> "t2",
       config |-> [source |-> PyDict([query |-> SourceText,
                                      expected |-> PyStr(<<">", "=", "2">>)])]],
      [name |-> "t3",
       config |-> [target |-> Block(TargetText, PyStr(<<"k">>), PyStr(<<"p", "f">>)),
                   severity |-> Low]] }

\* What execute_query answers to the query of a test: no row, one row with
\* one column, or an exception of the connector.
TestReplies ==
    {Ok(<<>>), ConnectorError}
        \cup {Ok(<<PyDict([c |-> v])>>) : v \in {None, PyInt(1), PyInt(2)}}

\* What execute_query answers to the query of a template: rows that give
\* source pf its releases, a row that is no mapping, or an exception.
FetchReplies == {CompleteReply, Ok(<<None>>), ConnectorError}

RunFiles == {NoPath, Absent, PyDict(Templates)}

----------------------------------------------------------------------------
(* The connectors (MySQLConnector, BigQueryConnector) *)

\* The two classes keep their handle the same way: self.connection of
\* MySQLConnector and self.client of BigQueryConnector are None after
\* construction, set by connect(), tested by execute_query and close(), and
\* never reset. ConnectorError stands for whatever exception they raise.

\* a handle a connector holds: open, or closed by close()
Handle(open) == [k |-> "handle", open |-> open]

\* something a connector did to its database
Event(on, op, ok) == [on |-> on, op |-> op, ok |-> ok]

\* connect() of the connector of side on holding handle: connects tells
\* whether the database accepts the connection
connect(on, handle, connects) ==
    IF connects
    THEN [connection |-> Handle(TRUE),
          events |-> <<Event(on, "connect", TRUE)>>,
          res |-> Ok(None)]
    ELSE [connection |-> handle,
          events |-> <<Event(on, "connect", FALSE)>>,
          res |-> ConnectorError]

\* execute_query connecting before every query
execute_query_AlwaysConnects(on, handle, connects, reply) ==
    LET c == connect(on, handle, connects)
    IN  IF ~c.res.ok THEN c
        ELSE [connection |-> c.connection,
              events |-> Append(c.events, Event(on, "query", reply.ok)),
              res |-> reply]

\* execute_query(query) of the connector of side on holding handle: reply is
\* what the database answers to the query
execute_query(on, handle, connects, reply) ==
    LET c == IF handle = None
             THEN connect(on, handle, connects)
             ELSE [connection |-> handle, events |-> <<>>, res |-> Ok(None)]
    IN  IF ~c.res.ok THEN c
        ELSE [connection |-> c.connection,
              events |-> Append(c.events, Event(on, "query", reply.ok)),
              res |-> reply]

\* close() of the connector of side on holding handle; closing a handle
\* that is closed already raises or not, as the driver decides (raises)
close(on, handle, raises) ==
    IF handle = None
    THEN [connection |-> handle, events |-> <<>>, res |-> Ok(None)]
    ELSE [connection |-> Handle(FALSE),
          events |-> <<Event(on, "close", handle.open \/ ~raises)>>,
          res |-> IF handle.open \/ ~raises THEN Ok(None) ELSE ConnectorError]

----------------------------------------------------------------------------
(* ExecutionSummary *)

INVALID == "INVALID"

\* str.lower()
Lower(s) ==
    [i \in DOMAIN s |->
        IF \E j \in DOMAIN UpperCase : UpperCase[j] = s[i]
        THEN LowerCase[CHOOSE j \in DOMAIN UpperCase : UpperCase[j] = s[i]]
        ELSE s[i]]

\* r.get("severity", ""): a record whose severity is Absent has no such key
SeverityOf(r) == IF r.severity = Absent THEN PyStr(<<>>) ELSE r.severity

\* ExecutionSummary(results): Ok(the counts), or Exc(e) when the constructor
\* raises e. `and` reads the severity of failed records only, and .lower()
\* exists on strings only. The times of the records are left out, as in
\* Record.
ExecutionSummary(rs) ==
    LET failing == {i \in DOMAIN rs : rs[i].status = FAIL}
    IN  IF \E i \in failing : SeverityOf(rs[i]).k # "str"
        THEN Exc("AttributeError")
        ELSE Ok([total_tests |-> Len(rs),
                 passed |-> Cardinality({i \in DOMAIN rs : rs[i].status = PASS}),
                 failed |-> Cardinality(failing),
                 invalid |-> Cardinality({i \in DOMAIN rs : rs[i].status = INVALID}),
                 critical_failed |->
                    Cardinality({i \in failing :
                                    Lower(SeverityOf(rs[i]).s) = Critical.s})])

\* pass_percentage() of a summary: a float
pass_percentage(s) ==
    IF s.total_tests = 0 THEN Ok(FloatZero)
    ELSE Ok(FloatMulInt(FloatDiv(s.passed, s.total_tests), 100))

\* fail_percentage() of a summary: a float
fail_percentage(s) ==
    IF s.total_tests = 0 THEN Ok(FloatZero)
    ELSE Ok(FloatMulInt(FloatDiv(s.failed, s.total_tests), 100))

InitRun ==
    /\ source_value = None
    /\ target_value = None
    /\ test_config = <<>>
    /\ applied = None
    /\ queries_file \in RunFiles
    /\ preprocessor_queries = LoadQueries(queries_file)
    /\ call = NoCall
    /\ executed = <<>>
    /\ test_cases \in SeqsUpTo(Tests, MaxTests)
    /\ current = 0
    /\ query = <<>>
    /\ status = None
    /\ results = <<>>
    /\ issued = <<>>
    /\ caught = {}
    /\ SumIdle
    /\ ConIdle
    /\ pc = "start"
    /\ result = Pending

\* lines 43-45
Begin ==
    /\ pc = "start"
    /\ results' = <<>>
    /\ current' = 1
    /\ pc' = "test"
    /\ UNCHANGED <<summary, connection, events>>
    /\ UNCHANGED <<cmpVars, preVars, test_cases, query, status, issued, caught,
                   result>>

\* lines 47-56
StartTest ==
    /\ pc = "test"
    /\ current <= Len(test_cases)
    /\ test_config' = test_cases[current].config
    /\ source_value' = None
    /\ target_value' = None
    /\ pc' = FirstStep(test_cases[current].config)
    /\ UNCHANGED <<applied, preVars, runVars, summary, connection, events, result>>

\* lines 60-67 for the source block, 76-83 for the target block
Preprocess(on) ==
    /\ pc = on \o "_pre"
    /\ LET block == test_config[on].d
           asks == /\ queries_file # NoPath
                   /\ Truthy(Get(block, "config_query_key", None))
                   /\ Get(block, "config_query_key", None)
                         \in DOMAIN preprocessor_queries
       IN  \E drawn \in (IF asks THEN FetchReplies ELSE {Ok(<<>>)}),
              connects \in (IF asks THEN BOOLEAN ELSE {TRUE}) :
             LET c == execute_query(on, connection[on], connects, drawn)
                 reply == c.res
                 r == _process_query_with_preprocessor(queries_file,
                          preprocessor_queries, block.query.s, block, reply)
             IN  /\ call' = [op |-> "_process_query_with_preprocessor",
                             on |-> on, reply |-> reply]
                 /\ issued' = issued \o
                       [i \in DOMAIN r.executed |->
                           Issue(current, on, "fetch", r.executed[i], reply.ok)]
                 /\ IF r.executed # <<>>
                    THEN /\ connection' = [connection EXCEPT ![on] = c.connection]
                         /\ events' = events \o c.events
                    ELSE UNCHANGED <<connection, events>>
                 /\ caught' = IF r.caught
                              THEN caught \cup {[test |-> current, on |-> on]}
                              ELSE caught
                 /\ IF r.res.ok
                    THEN /\ query' = r.res.v
                         /\ pc' = on \o "_query"
                         /\ UNCHANGED result
                    ELSE /\ result' = r.res
                         /\ pc' = "raised"
                         /\ UNCHANGED query
    /\ UNCHANGED <<cmpVars, queries_file, preprocessor_queries, executed,
                   test_cases, current, status, results, summary>>

\* Query taking a failed query for a query without rows
Query_SkipsFailure(on) ==
    /\ pc = on \o "_query"
    /\ \E drawn \in TestReplies, connects \in BOOLEAN :
         LET c == execute_query(on, connection[on], connects, drawn)
             reply == c.res
             value == IF reply.ok THEN _extract_value(reply.v) ELSE Ok(None)
         IN  /\ call' = [op |-> "execute_query", on |-> on, reply |-> reply]
             /\ connection' = [connection EXCEPT ![on] = c.connection]
             /\ events' = events \o c.events
             /\ issued' = Append(issued,
                                 Issue(current, on, "query", query, reply.ok))
             /\ IF value.ok
                THEN /\ IF on = "source"
                        THEN source_value' = value.v /\ UNCHANGED target_value
                        ELSE target_value' = value.v /\ UNCHANGED source_value
                     /\ pc' = AfterQuery(on, test_config)
                     /\ UNCHANGED result
                ELSE /\ result' = value
                     /\ pc' = "raised"
                     /\ UNCHANGED <<source_value, target_value>>
    /\ UNCHANGED <<test_config, applied, queries_file, preprocessor_queries,
                   executed, test_cases, current, query, status, results,
                   caught, summary>>

\* lines 69-72 for the source block, 85-88 for the target block
Query(on) ==
    /\ pc = on \o "_query"
    /\ \E drawn \in TestReplies, connects \in BOOLEAN :
         LET c == execute_query(on, connection[on], connects, drawn)
             reply == c.res
             value == IF reply.ok THEN _extract_value(reply.v) ELSE reply
         IN  /\ call' = [op |-> "execute_query", on |-> on, reply |-> reply]
             /\ connection' = [connection EXCEPT ![on] = c.connection]
             /\ events' = events \o c.events
             /\ issued' = Append(issued,
                                 Issue(current, on, "query", query, reply.ok))
             /\ IF value.ok
                THEN /\ IF on = "source"
                        THEN source_value' = value.v /\ UNCHANGED target_value
                        ELSE target_value' = value.v /\ UNCHANGED source_value
                     /\ pc' = AfterQuery(on, test_config)
                     /\ UNCHANGED result
                ELSE /\ result' = value
                     /\ pc' = "raised"
                     /\ UNCHANGED <<source_value, target_value>>
    /\ UNCHANGED <<test_config, applied, queries_file, preprocessor_queries,
                   executed, test_cases, current, query, status, results,
                   caught, summary>>

\* lines 91-96
CompareValues ==
    /\ pc = "compare"
    /\ LET verdict == compare_values(source_value, target_value, test_config)
       IN  IF verdict.ok
           THEN status' = verdict.v /\ pc' = "append" /\ UNCHANGED result
           ELSE result' = verdict /\ pc' = "raised" /\ UNCHANGED status
    /\ UNCHANGED <<summary, connection, events>>
    /\ UNCHANGED <<cmpVars, preVars, test_cases, current, query, results,
                   issued, caught>>

\* lines 102-115
AppendRecord ==
    /\ pc = "append"
    /\ results' = Append(results,
                         Record(test_cases[current].name, test_config,
                                source_value, target_value, status))
    /\ current' = current + 1
    /\ pc' = "test"
    /\ UNCHANGED <<summary, connection, events>>
    /\ UNCHANGED <<cmpVars, preVars, test_cases, query, status, issued, caught,
                   result>>

\* Return closing the connectors that hold a handle
Return_ClosesConnectors ==
    /\ pc = "test"
    /\ current > Len(test_cases)
    /\ result' = Ok(results)
    /\ pc' = "returned"
    /\ connection' = [on \in Sides |->
                         close(on, connection[on], FALSE).connection]
    /\ events' = events \o close("source", connection["source"], FALSE).events
                        \o close("target", connection["target"], FALSE).events
    /\ UNCHANGED <<cmpVars, preVars, runVars, summary>>

\* line 117
Return ==
    /\ pc = "test"
    /\ current > Len(test_cases)
    /\ result' = Ok(results)
    /\ pc' = "returned"
    /\ UNCHANGED <<cmpVars, preVars, runVars, summary, connection, events>>

\* cli.py line 130: the summary of what run returned
Summarize ==
    /\ pc = "returned"
    /\ call' = [op |-> "ExecutionSummary"]
    /\ summary' = ExecutionSummary(results)
    /\ pc' = "summarized"
    /\ UNCHANGED <<cmpVars, queries_file, preprocessor_queries, executed,
                   runVars, connection, events, result>>

NextRun ==
    \/ Begin
    \/ StartTest
    \/ Preprocess("source")
    \/ Query("source")
    \/ Preprocess("target")
    \/ Query("target")
    \/ CompareValues
    \/ AppendRecord
    \/ Return
    \/ Summarize

SpecRun == InitRun /\ [][NextRun]_vars

----------------------------------------------------------------------------
(* ExecutionSummary of drawn results *)

MaxResults == 2

\* Records as run appends them and as a caller can build them: every
\* status, with a severity in lower or mixed case, another severity, None
\* or no severity key.
SummaryRecords ==
    { [test_name |-> "t", severity |-> sev, source_value |-> None,
       target_value |-> None, status |-> st] :
         sev \in {Absent, None, Critical, Low,
                  PyStr(<<"C", "r", "i", "t", "i", "c", "a", "l">>)},
         st \in {PASS, FAIL, INVALID} }

InitSummary ==
    /\ source_value = None
    /\ target_value = None
    /\ test_config = <<>>
    /\ applied = None
    /\ PreIdle
    /\ test_cases = <<>>
    /\ current = 0
    /\ query = <<>>
    /\ status = None
    /\ results \in SeqsUpTo(SummaryRecords, MaxResults)
    /\ issued = <<>>
    /\ caught = {}
    /\ SumIdle
    /\ ConIdle
    /\ pc = "returned"
    /\ result = Ok(results)

\* lines 32-36
PassPercentage ==
    /\ pc = "summarized"
    /\ summary.ok
    /\ call' = [op |-> "pass_percentage"]
    /\ result' = pass_percentage(summary.v)
    /\ UNCHANGED <<cmpVars, queries_file, preprocessor_queries, executed,
                   runVars, summary, connection, events, pc>>

\* lines 38-42
FailPercentage ==
    /\ pc = "summarized"
    /\ summary.ok
    /\ call' = [op |-> "fail_percentage"]
    /\ result' = fail_percentage(summary.v)
    /\ UNCHANGED <<cmpVars, queries_file, preprocessor_queries, executed,
                   runVars, summary, connection, events, pc>>

NextSummary == Summarize \/ PassPercentage \/ FailPercentage

SpecSummary == InitSummary /\ [][NextSummary]_vars

----------------------------------------------------------------------------
(* The connectors called in any order *)

MaxEvents == 5

\* What a database answers to a query: rows or an exception.
ConnectorReplies == {Ok(<<>>), ConnectorError}

InitConnectors ==
    /\ source_value = None
    /\ target_value = None
    /\ test_config = <<>>
    /\ applied = None
    /\ PreIdle
    /\ RunIdle
    /\ SumIdle
    /\ ConIdle
    /\ pc = "connectors"
    /\ result = Pending

ExecuteQuery ==
    /\ pc = "connectors"
    /\ Len(events) < MaxEvents
    /\ \E on \in Sides, connects \in BOOLEAN, reply \in ConnectorReplies :
         LET c == execute_query(on, connection[on], connects, reply)
         IN  /\ call' = [op |-> "execute_query", on |-> on, reply |-> c.res]
             /\ connection' = [connection EXCEPT ![on] = c.connection]
             /\ events' = events \o c.events
             /\ result' = c.res
    /\ UNCHANGED <<cmpVars, queries_file, preprocessor_queries, executed,
                   runVars, summary, pc>>

Close ==
    /\ pc = "connectors"
    /\ Len(events) < MaxEvents
    /\ \E on \in Sides, raises \in BOOLEAN :
         LET c == close(on, connection[on], raises)
         IN  /\ call' = [op |-> "close", on |-> on, reply |-> c.res]
             /\ connection' = [connection EXCEPT ![on] = c.connection]
             /\ events' = events \o c.events
             /\ result' = c.res
    /\ UNCHANGED <<cmpVars, queries_file, preprocessor_queries, executed,
                   runVars, summary, pc>>

NextConnectors == ExecuteQuery \/ Close

SpecConnectors == InitConnectors /\ [][NextConnectors]_vars

----------------------------------------------------------------------------
(* Vocabulary of the properties *)

Done == pc = "done"

HasTarget == target_value # None

\* a block of test_config is absent or a mapping
BlockOk(key) == key \notin DOMAIN test_config \/ test_config[key].k = "dict"

\* the expected entry of the source block, Absent when there is none
CfgExpected ==
    IF "source" \in DOMAIN test_config /\ test_config.source.k = "dict"
       /\ "expected" \in DOMAIN test_config.source.d
    THEN test_config.source.d.expected ELSE Absent

\* the threshold entry of the comparisons block, Absent when there is none
CfgThreshold ==
    IF "comparisons" \in DOMAIN test_config /\ test_config.comparisons.k = "dict"
       /\ "threshold" \in DOMAIN test_config.comparisons.d
    THEN test_config.comparisons.d.threshold ELSE Absent

\* a field of the threshold mapping, Absent when it is not set
ThresholdField(key) ==
    IF CfgThreshold.k = "dict" /\ key \in DOMAIN CfgThreshold.d
    THEN CfgThreshold.d[key] ELSE Absent

IsSet(v) == v.k \notin {"absent", "none"}

\* threshold.condition is the operator tok
ConditionIs(tok) == ThresholdField("condition") = PyStr(Chars(tok))

\* threshold.value is not set (or is empty)
ValueNotSet == ThresholdField("value") \in {Absent, PyStr(<<>>)}

\* the exact relation "an/ad tok bn/bd" on rationals with positive denominators
Rel(tok, an, ad, bn, bd) ==
    CASE tok = "<=" -> an * bd <= bn * ad
      [] tok = ">=" -> an * bd >= bn * ad
      [] tok = "<" -> an * bd < bn * ad
      [] tok = ">" -> an * bd > bn * ad
      [] tok = "==" -> an * bd = bn * ad
      [] tok = "!=" -> an * bd # bn * ad

NumericPair == IsNumber(source_value) /\ IsNumber(target_value)

Unequal == ~PyEq(source_value, target_value)

\* |source - target| * dd, with dd = Den(source) * Den(target)
AbsDiffScaled ==
    Abs(Num(source_value) * Den(target_value) - Num(target_value) * Den(source_value))

\* operands of different types that are not both numbers
Mismatched(a, b) == ~(IsNumber(a) /\ IsNumber(b)) /\ a.k # b.k

----------------------------------------------------------------------------
(* Properties *)

\* C1: source-only condition rule. With no target, a numeric source value
\* and source.expected the string <op><number>, the verdict is PASS exactly
\* when "source_value op number" is true, and FAIL otherwise.
C1_SourceOnlyCondition ==
    \A tok \in Operators, num \in ConditionNumbers, sp \in {<<>>, <<" ">>} :
        (/\ Done
         /\ ~HasTarget
         /\ IsNumber(source_value)
         /\ CfgExpected = PyStr(ConditionString(tok, num, sp)))
        => result = Ok(IF Rel(tok, Num(source_value), Den(source_value),
                              num[1], Pow(10, num[2]))
                       THEN PASS ELSE FAIL)

C1_Witness ==
    /\ Done
    /\ ~HasTarget
    /\ source_value = PyInt(1)
    /\ CfgExpected = PyStr(<<"<", "=", "0", ".", "5">>)
    /\ result = Ok(FAIL)

\* C2: equality short-circuit. With a target present and source equal to
\* target the verdict is PASS, whatever the threshold entry (also one that
\* is not a mapping) and whatever source.expected.
C2_EqualityShortCircuit ==
    (Done /\ HasTarget /\ PyEq(source_value, target_value)) => result = Ok(PASS)

C2_Witness ==
    /\ Done
    /\ source_value = PyInt(1)
    /\ target_value = PyFloat(1, 1)
    /\ CfgThreshold = PyStr(<<"5">>)
    /\ result = Ok(PASS)

\* C3: condition-threshold inversion. For unequal numeric source and target,
\* threshold.condition one of the six operators and threshold.value not set,
\* the verdict is FAIL exactly when "source condition target" holds and
\* PASS exactly when it does not.
C3_ConditionInversion ==
    \A tok \in Operators :
        (Done /\ HasTarget /\ NumericPair /\ Unequal /\ ConditionIs(tok) /\ ValueNotSet)
        => result = Ok(IF Rel(tok, Num(source_value), Den(source_value),
                              Num(target_value), Den(target_value))
                       THEN FAIL ELSE PASS)

C3_Witness ==
    /\ Done
    /\ source_value = PyInt(5)
    /\ target_value = PyInt(1)
    /\ ConditionIs(">")
    /\ ValueNotSet
    /\ result = Ok(FAIL)

\* threshold.value is "percentage" and threshold.limit is an integer
PercentageMode ==
    ThresholdField("value") = Percentage /\ ThresholdField("limit").k = "int"

\* C4: percentage mode. For unequal numeric source and target, target != 0,
\* threshold.value "percentage" and a limit, the verdict is PASS exactly when
\* |source - target| * 100 <= limit * |target|, and FAIL otherwise.
C4_PercentageExact ==
    (/\ Done
     /\ HasTarget
     /\ NumericPair
     /\ Unequal
     /\ Num(target_value) # 0
     /\ PercentageMode)
    => result = Ok(IF AbsDiffScaled * 100
                        <= ThresholdField("limit").n * Abs(Num(target_value))
                                                     * Den(source_value)
                   THEN PASS ELSE FAIL)

\* C5: percentage mode with a zero target. With threshold.value "percentage",
\* a limit set, target == 0 and source != 0 the verdict is FAIL for every
\* limit, and nothing is raised.
C5_PercentageZeroTarget ==
    (/\ Done
     /\ HasTarget
     /\ PyEq(target_value, PyInt(0))
     /\ ~PyEq(source_value, PyInt(0))
     /\ ThresholdField("value") = Percentage
     /\ IsSet(ThresholdField("limit")))
    => result = Ok(FAIL)

C5_Witness ==
    /\ Done
    /\ source_value = PyInt(16)
    /\ target_value = PyInt(0)
    /\ ThresholdField("value") = Percentage
    /\ ThresholdField("limit") = PyInt(220)
    /\ result = Ok(FAIL)

\* C6: absolute mode. For unequal numeric source and target, threshold.value
\* "absolute" and a limit, the verdict is PASS exactly when
\* |source - target| <= limit, and FAIL otherwise.
C6_AbsoluteMode ==
    (/\ Done
     /\ HasTarget
     /\ NumericPair
     /\ Unequal
     /\ ThresholdField("value") = Absolute
     /\ ThresholdField("limit").k = "int")
    => result = Ok(IF AbsDiffScaled
                        <= ThresholdField("limit").n * Den(source_value)
                                                     * Den(target_value)
                   THEN PASS ELSE FAIL)

C6_Witness ==
    /\ Done
    /\ source_value = PyInt(1)
    /\ target_value = PyInt(0)
    /\ ThresholdField("value") = Absolute
    /\ ThresholdField("limit") = PyInt(1)
    /\ result = Ok(PASS)

\* threshold.value is set to something non-empty
ValueSet == IsSet(ThresholdField("value")) /\ Truthy(ThresholdField("value"))

\* no threshold rule applies: the threshold is absent or empty, or it has no
\* condition and no value, or a value without a limit, or a value that is
\* neither "percentage" nor "absolute"
NoRuleApplies ==
    \/ CfgThreshold \in {Absent, None, EmptyDict}
    \/ /\ CfgThreshold.k = "dict"
       /\ \/ ~IsSet(ThresholdField("condition")) /\ ~IsSet(ThresholdField("value"))
          \/ ValueSet /\ ~IsSet(ThresholdField("limit"))
          \/ ValueSet /\ ThresholdField("value") \notin {Percentage, Absolute}

C8_Total ==
    (/\ Done
     /\ BlockOk("source")
     /\ BlockOk("comparisons")
     /\ CfgThreshold.k \in {"absent", "dict"})
    => (result.ok /\ result.v \in {PASS, FAIL})

C8_Witness ==
    /\ Done
    /\ source_value = PyStr(<<"a">>)
    /\ target_value = PyInt(5)
    /\ ThresholdField("value") = Percentage
    /\ ThresholdField("limit") = PyStr(<<"5">>)
    /\ result = Ok(FAIL)

\* a threshold mode is active: condition mode with one of the six operators,
\* percentage mode or absolute mode with a limit
SomeModeActive ==
    \/ ValueNotSet /\ \E tok \in Operators : ConditionIs(tok)
    \/ ThresholdField("value") \in {Percentage, Absolute}
          /\ IsSet(ThresholdField("limit"))

\* C9: incomputable comparison yields FAIL. With a target present, source !=
\* target and operands of mismatched types, the verdict is FAIL in condition
\* mode, percentage mode and absolute mode, and nothing is raised.
C9_IncomputableFails ==
    (/\ Done
     /\ HasTarget
     /\ Unequal
     /\ Mismatched(source_value, target_value)
     /\ SomeModeActive)
    => result = Ok(FAIL)

\* C10 as stated: for each of the six operators, _apply_operator on operands
\* of mismatched types returns false and does not raise.
C10_MismatchedFalse ==
    \A tok \in Operators :
        (Done /\ applied = PyStr(Chars(tok)) /\ Mismatched(source_value, target_value))
        => result = Ok(FALSE)

\* C10 amended: on operands of mismatched types _apply_operator raises
\* nothing; it returns false for <=, >=, <, > and ==, and true for !=.
C10_MismatchedAmended ==
    \A tok \in Operators :
        (Done /\ applied = PyStr(Chars(tok)) /\ Mismatched(source_value, target_value))
        => result = Ok(tok = "!=")

C10_Witness ==
    /\ Done
    /\ applied = PyStr(<<"<">>)
    /\ source_value = PyStr(<<"a">>)
    /\ target_value = PyInt(5)
    /\ result = Ok(FALSE)

----------------------------------------------------------------------------
(* Vocabulary of the preprocessor properties *)

\* the call op has returned or raised
Called(op) == pc = "done" /\ call.op = op

\* the entry of name in m has both release names, non-empty
CompleteEntry(m, name) ==
    /\ name \in DOMAIN m
    /\ "current_release" \in DOMAIN m[name]
    /\ "previous_release" \in DOMAIN m[name]
    /\ m[name].current_release.k = "str"
    /\ m[name].previous_release.k = "str"
    /\ m[name].current_release.s # <<>>
    /\ m[name].previous_release.s # <<>>

CurrToken(name) == Upper(name.s) \o CurrWeek

PrevToken(name) == Upper(name.s) \o PrevWeek

RECURSIVE Substituted(_, _, _, _, _)
\* q read from the left with each occurrence of tokC given as c and each
\* occurrence of tokP given as p, the text between them as it is
Substituted(q, tokC, c, tokP, p) ==
    LET occ == Occurrences(q, tokC) \cup Occurrences(q, tokP)
    IN  IF occ = {} THEN q
        ELSE LET i == CHOOSE j \in occ : \A h \in occ : j <= h
                 isC == i \in Occurrences(q, tokC)
                 n == IF isC THEN Len(tokC) ELSE Len(tokP)
             IN  SubSeq(q, 1, i - 1) \o (IF isC THEN c ELSE p)
                    \o Substituted(Drop(q, i + n - 1), tokC, c, tokP, p)

\* C12: placeholder replacement. When source_name has an entry in mappings
\* with both release names non-empty, replace_placeholders_in_query returns
\* the query with every occurrence of UPPER(source_name)_CURR_WEEK given as
\* the current-release name, every occurrence of UPPER(source_name)_PREV_WEEK
\* as the previous-release name, and all other text unchanged.
C12_PlaceholderReplacement ==
    (/\ Called("replace_placeholders_in_query")
     /\ CompleteEntry(call.mappings, call.source_name))
    => result = Ok(Substituted(call.query,
                     CurrToken(call.source_name),
                     call.mappings[call.source_name].current_release.s,
                     PrevToken(call.source_name),
                     call.mappings[call.source_name].previous_release.s))

C12_Witness ==
    /\ Called("replace_placeholders_in_query")
    /\ call.source_name = PyStr(<<"p", "f">>)
    /\ CompleteEntry(call.mappings, call.source_name)
    /\ call.query = <<"P", "F">> \o PrevWeek \o <<"P", "F">> \o CurrWeek
    /\ result = Ok(<<"r", "1", "r", "2">>)

\* the query holds a placeholder of some source
HasPlaceholder(q) ==
    \E name \in SourceNames :
        Occurrences(q, CurrToken(name)) \cup Occurrences(q, PrevToken(name)) # {}

\* C13: replacement is the identity without a complete mapping. If
\* source_name has no entry in mappings (empty mappings included), or its
\* entry lacks a current-release or a previous-release value,
\* replace_placeholders_in_query returns the query unchanged, placeholders or
\* not, and applied to its result it returns the same again.
C13_IdentityWithoutMapping ==
    (/\ Called("replace_placeholders_in_query")
     /\ ~CompleteEntry(call.mappings, call.source_name))
    => /\ result = Ok(call.query)
       /\ replace_placeholders_in_query(result.v, call.source_name,
                                        call.mappings) = result

C13_Witness ==
    /\ Called("replace_placeholders_in_query")
    /\ call.source_name = PyStr(<<"p", "f">>)
    /\ call.source_name \in DOMAIN call.mappings
    /\ call.mappings[call.source_name] = [current_release |-> CurrentName]
    /\ call.query = <<"P", "F">> \o CurrWeek \o <<"P", "F">> \o PrevWeek
    /\ result = Ok(call.query)

\* C14: process_query fast path. When config_query_key is null or empty,
\* process_query returns the input query unchanged, for every query and
\* source_name, and no execute_query call reaches the connector.
C14_FastPath ==
    (/\ Called("process_query")
     /\ call.config_query_key \in {None, PyStr(<<>>)})
    => /\ result = Ok(call.query)
       /\ executed = <<>>

C14_Witness ==
    /\ Called("process_query")
    /\ call.config_query_key = PyStr(<<>>)
    /\ call.config_query_key \in DOMAIN preprocessor_queries
    /\ call.source_name = PyStr(<<"p", "f">>)
    /\ call.reply = CompleteReply
    /\ HasPlaceholder(call.query)
    /\ result = Ok(call.query)
    /\ executed = <<>>

\* the call names a template and the connector is asked for its rows
Fetches == call.config_query_key \in DOMAIN preprocessor_queries

\* the rows answered are mappings
RowsAnswered ==
    /\ call.reply.ok
    /\ \A i \in DOMAIN call.reply.v : call.reply.v[i].k = "dict"

\* the fetch of the mappings returns, and what it returns is empty
FetchedEmpty ==
    \/ ~Fetches
    \/ /\ RowsAnswered
       /\ \A i \in DOMAIN call.reply.v : "source" \notin DOMAIN call.reply.v[i].d

SourceNameAbsent == call.source_name \in {None, PyStr(<<>>)}

\* C15 as stated: process_query with a config_query_key returns the input
\* query unchanged whenever source_name is absent or the fetched dataset
\* mappings are empty, whatever placeholders the query holds.
C15_UnchangedWithoutName ==
    (/\ Called("process_query")
     /\ Truthy(call.config_query_key)
     /\ (SourceNameAbsent \/ FetchedEmpty))
    => result = Ok(call.query)

\* C15 amended: process_query with a config_query_key returns the input
\* query unchanged whenever the fetch of the mappings raises nothing and
\* source_name is absent or the fetched mappings are empty; when the fetch
\* raises, process_query raises the same exception, source_name absent or not.
C15_UnchangedAmended ==
    (/\ Called("process_query")
     /\ Truthy(call.config_query_key))
    => /\ ((~Fetches \/ RowsAnswered) /\ (SourceNameAbsent \/ FetchedEmpty))
            => result = Ok(call.query)
       /\ (Fetches /\ ~call.reply.ok) => result = call.reply
       /\ (Fetches /\ call.reply.ok /\ ~RowsAnswered) => ~result.ok

C15_Witness ==
    /\ Called("process_query")
    /\ Fetches
    /\ Truthy(call.config_query_key)
    /\ call.source_name = None
    /\ call.reply = CompleteReply
    /\ HasPlaceholder(call.query)
    /\ executed = <<Template>>
    /\ result = Ok(call.query)

\* C16: a missing template is not an error. When the template file was
\* absent at construction, or the requested config_query_key is not among the
\* loaded templates, get_dataset_mappings returns an empty mapping, raises
\* nothing and executes no query on the connector.
C16_MissingTemplate ==
    (/\ Called("get_dataset_mappings")
     /\ (queries_file = Absent \/ ~Fetches))
    => /\ result = Ok(<<>>)
       /\ executed = <<>>

C16_Witness ==
    /\ Called("get_dataset_mappings")
    /\ queries_file = Absent
    /\ call.config_query_key = PyStr(<<"k">>)
    /\ call.reply = ConnectorError
    /\ result = Ok(<<>>)
    /\ executed = <<>>

\* the places of the answered rows that have a source field
WithSource == {i \in DOMAIN call.reply.v : "source" \in DOMAIN call.reply.v[i].d}

\* the last answered row whose source is name
LastRowOf(name) ==
    LET at == {i \in WithSource : call.reply.v[i].d["source"] = name}
    IN  call.reply.v[CHOOSE i \in at : \A j \in at : j <= i].d

\* C17: mapping construction. get_dataset_mappings returns a mapping whose
\* keys are exactly the source values of the result rows that have a source
\* field, rows without one adding nothing, and the entry of a source value
\* found in several rows is the one built from the last such row.
C17_MappingConstruction ==
    (/\ Called("get_dataset_mappings")
     /\ Fetches
     /\ RowsAnswered)
    => /\ result.ok
       /\ DOMAIN result.v = {call.reply.v[i].d["source"] : i \in WithSource}
       /\ \A name \in DOMAIN result.v : result.v[name] = EntryOf(LastRowOf(name))

C17_Witness ==
    /\ Called("get_dataset_mappings")
    /\ Fetches
    /\ call.reply =
          Ok(<<PyDict(RowOf(PyStr(<<"p", "f">>), "release", CurrentName,
                            PreviousName)),
               PyDict(RowOf(PyStr(<<"p", "f">>), "label", CurrentName,
                            None))>>)
    /\ DOMAIN result.v = {PyStr(<<"p", "f">>)}
    /\ result.v[PyStr(<<"p", "f">>)] =
          [current_release |-> CurrentName, previous_release |-> None]

\* the row uses the naming current_release/previous_release only
ReleaseNamed(row) ==
    /\ "curr_release_label" \notin DOMAIN row
    /\ "prev_release_label" \notin DOMAIN row
    /\ "current_release" \in DOMAIN row
    /\ "previous_release" \in DOMAIN row

\* the same data under the naming curr_release_label/prev_release_label
Relabelled(row) ==
    MkDict([source |-> Get(row, "source", Absent),
            curr_release_label |-> row.current_release,
            prev_release_label |-> row.previous_release])

\* C18: naming-convention equivalence. Two result sets that carry the same
\* data, one under the fields current_release/previous_release and the other
\* under curr_release_label/prev_release_label, give identical dataset
\* mappings from get_dataset_mappings.
C18_NamingEquivalence ==
    (/\ Called("get_dataset_mappings")
     /\ Fetches
     /\ RowsAnswered
     /\ \A i \in DOMAIN call.reply.v : ReleaseNamed(call.reply.v[i].d))
    => result =
         get_dataset_mappings(preprocessor_queries, call.config_query_key,
            Ok([i \in DOMAIN call.reply.v |->
                   PyDict(Relabelled(call.reply.v[i].d))])).res

----------------------------------------------------------------------------
(* Vocabulary of the run properties *)

\* the query a block of a declared test case is written with
Original(test, on) == test_cases[test].config[on].d.query.s

\* the execute_query calls received for the query itself of a block
QueryCalls(test, on) ==
    {i \in DOMAIN issued :
        /\ issued[i].test = test
        /\ issued[i].on = on
        /\ issued[i].step = "query"}

\* the run is past the query of the block, answered or not
PastQuery(test, on) ==
    \/ current > test
    \/ pc = "returned"
    \/ /\ current = test
       /\ \/ pc \in {"compare", "append"}
          \/ on = "source" /\ pc \in {"target_pre", "target_query"}
          \/ pc = "raised" /\ call.op = "execute_query" /\ call.on = on
          \/ pc = "raised" /\ call.on = "target" /\ on = "source"

\* the test case has its record among the results
Recorded(test) ==
    /\ Len(results) >= test
    /\ results[test].test_name = test_cases[test].name

\* the step just taken preprocessed a block and its fetch of the mappings
\* raised: the connector failed or answered a row that is no mapping
FetchRaised ==
    /\ call.op = "_process_query_with_preprocessor"
    /\ issued # <<>>
    /\ issued[Len(issued)] =
          Issue(current, call.on, "fetch", Template, call.reply.ok)
    /\ \/ ~call.reply.ok
       \/ \E i \in DOMAIN call.reply.v : call.reply.v[i].k # "dict"

\* C19: a preprocessing failure never aborts a test. If fetching the
\* mappings raises (connector failure or malformed rows) while a source or
\* target block is preprocessed, the execution loop catches it, uses the
\* original unprocessed query for that block, still executes that query, and
\* still produces the record of the test.
C19_PreprocessingFailureCaught ==
    /\ pc = "raised" => call.op = "execute_query"
    /\ FetchRaised
          => /\ pc = call.on \o "_query"
             /\ query = Original(current, call.on)
             /\ [test |-> current, on |-> call.on] \in caught
    /\ \A e \in caught :
          /\ (current = e.test /\ pc = e.on \o "_query")
                => query = Original(e.test, e.on)
          /\ PastQuery(e.test, e.on)
                => /\ Cardinality(QueryCalls(e.test, e.on)) = 1
                   /\ \A i \in QueryCalls(e.test, e.on) :
                         issued[i].query = Original(e.test, e.on)
          /\ (current > e.test \/ pc = "returned") => Recorded(e.test)
    /\ \A test \in DOMAIN test_cases : \A on \in {"source", "target"} :
          (\E i \in DOMAIN issued :
              /\ issued[i].test = test
              /\ issued[i].on = on
              /\ issued[i].step = "fetch"
              /\ ~issued[i].ok)
          => [test |-> test, on |-> on] \in caught

C19_Witness ==
    /\ pc = "returned"
    /\ Len(test_cases) = 2
    /\ caught = {[test |-> 1, on |-> "source"], [test |-> 2, on |-> "target"]}
    /\ \E i \in DOMAIN issued : issued[i].step = "fetch" /\ ~issued[i].ok
    /\ \E i \in DOMAIN issued : issued[i].step = "fetch" /\ issued[i].ok
    /\ Len(results) = 2

\* the places of the log where the query of a test was issued and failed
FailedQueries ==
    {i \in DOMAIN issued : issued[i].step = "query" /\ ~issued[i].ok}

\* C20: a connector failure aborts the run without retry. If execute_query
\* raises for the source or target query of a test, run raises to its caller
\* and returns no result records, the failed query is not issued a second
\* time, and no query of a later test case is issued.
C20_ConnectorFailureAborts ==
    \A i \in FailedQueries :
        /\ i = Len(issued)
        /\ pc = "raised"
        /\ result = ConnectorError
        /\ issued[i].test = current
        /\ \A j \in DOMAIN issued : issued[j].test <= current

C20_Witness ==
    /\ pc = "raised"
    /\ Len(test_cases) = 2
    /\ current = 1
    /\ FailedQueries = {Len(issued)}
    /\ issued[Len(issued)].on = "source"
    /\ "target" \in DOMAIN test_config
    /\ result = ConnectorError

----------------------------------------------------------------------------
(* Further properties of the comparator *)

\* test_config with the condition taken out of its threshold mapping
WithoutCondition ==
    [test_config EXCEPT !.comparisons =
        PyDict([threshold |->
            PyDict([key \in DOMAIN CfgThreshold.d \ {"condition"} |->
                       CfgThreshold.d[key]])])]

\* C26: mode precedence. If threshold.condition is set together with
\* threshold.value "percentage" or "absolute" and a limit, the verdict for
\* unequal values is that of the percentage or absolute tolerance rule, the
\* same as without the condition and so whatever the condition operator;
\* condition mode is used only when threshold.value is not set.
C26_ModePrecedence ==
    (/\ Done
     /\ HasTarget
     /\ Unequal
     /\ IsSet(ThresholdField("condition"))
     /\ ValueSet)
    => /\ result = compare_values(source_value, target_value, WithoutCondition)
       /\ (/\ NumericPair
           /\ ThresholdField("value") = Absolute
           /\ ThresholdField("limit").k = "int")
          => result = Ok(IF AbsDiffScaled
                              <= ThresholdField("limit").n * Den(source_value)
                                                           * Den(target_value)
                         THEN PASS ELSE FAIL)

C26_Witness ==
    /\ Done
    /\ source_value = PyInt(5)
    /\ target_value = PyInt(1)
    /\ ConditionIs("<")
    /\ ThresholdField("value") = Absolute
    /\ ThresholdField("limit") = PyInt(1)
    /\ result = Ok(FAIL)

\* threshold.condition is a non-empty string that is none of the six operators
UnrecognizedCondition ==
    /\ ThresholdField("condition").k = "str"
    /\ ThresholdField("condition").s # <<>>
    /\ \A tok \in Operators : ~ConditionIs(tok)

\* C28: unrecognized condition token. When threshold.condition is a
\* non-empty string that is not one of the six operators and threshold.value
\* is not set, _apply_operator evaluates to false and compare_values returns
\* PASS for every pair of unequal source and target values.
C28_UnrecognizedCondition ==
    (/\ Done
     /\ HasTarget
     /\ Unequal
     /\ UnrecognizedCondition
     /\ ValueNotSet)
    => /\ _apply_operator(source_value, ThresholdField("condition"),
                          target_value) = Ok(FALSE)
       /\ result = Ok(PASS)

C28_Witness ==
    /\ Done
    /\ source_value = PyStr(<<"a">>)
    /\ target_value = PyInt(5)
    /\ ThresholdField("condition") = PyStr(<<"~">>)
    /\ ThresholdField("limit") = PyInt(0)
    /\ ValueNotSet
    /\ result = Ok(PASS)

----------------------------------------------------------------------------
(* Further properties of the preprocessor *)

\* the occurrences of the placeholder name + suffix in q that are that
\* source's own: not the tail of a placeholder of another source
OwnTokens(q, name, suffix) ==
    {i \in Occurrences(q, Upper(name.s) \o suffix) :
        \A other \in SourceNames \ {name} :
            \A j \in Occurrences(q, Upper(other.s) \o suffix) :
                ~(j < i /\ j + Len(other.s) = i + Len(name.s))}

\* C27: no partial-token matching across sources.
\* replace_placeholders_in_query called for source name S leaves every
\* placeholder that belongs to another source name S' as it is, also when
\* UPPER(S) is a suffix of UPPER(S'), as for S = pf and S' = a_pf.
C27_NoPartialTokenMatching ==
    (/\ Called("replace_placeholders_in_query")
     /\ call.source_name \in SourceNames
     /\ result.ok)
    => \A other \in SourceNames \ {call.source_name} :
         \A suffix \in {CurrWeek, PrevWeek} :
            Cardinality(OwnTokens(result.v, other, suffix))
               = Cardinality(OwnTokens(call.query, other, suffix))

----------------------------------------------------------------------------
(* Further properties of the run *)

Steps ==
    <<"source_pre", "source_query", "target_pre", "target_query", "compare",
      "append">>

\* the place of a step in the order of a test case, 0 for what is no step
StepRank(p) ==
    IF \E i \in DOMAIN Steps : Steps[i] = p
    THEN CHOOSE i \in DOMAIN Steps : Steps[i] = p
    ELSE 0

\* the step belongs to test case test: it is the comparison, the append, or
\* a step of a block the test case declares
DeclaredStep(test, i) ==
    \/ i >= 5
    \/ i \in {1, 2} /\ "source" \in DOMAIN test_cases[test].config
    \/ i \in {3, 4} /\ "target" \in DOMAIN test_cases[test].config

\* C21: sequential execution order. In run the steps of a test case occur in
\* the order source preprocessing, source query, target preprocessing, target
\* query, comparison, record appended, and every step of test case i is
\* complete before any step of test case i+1 begins.
C21_SequentialOrder ==
    [][ /\ StepRank(pc) > 0 /\ StepRank(pc') > 0
           => /\ current' = current
              /\ StepRank(pc') > StepRank(pc)
              /\ \A i \in DOMAIN Steps :
                    (StepRank(pc) < i /\ i < StepRank(pc'))
                    => ~DeclaredStep(current, i)
        /\ (pc = "test" /\ StepRank(pc') > 0)
           => /\ current' = current
              /\ Len(results) = current - 1
              /\ \A i \in DOMAIN Steps :
                    i < StepRank(pc') => ~DeclaredStep(current, i)
        /\ current' # current
           => /\ pc \in {"start", "append"}
              /\ current' = current + 1
              /\ pc = "append" => results' = Append(results, results'[current])
        /\ pc' = "returned" => pc = "test" /\ Len(results) = Len(test_cases)
        /\ issued' # issued
           => /\ Len(issued') > Len(issued)
              /\ SubSeq(issued', 1, Len(issued)) = issued
              /\ \A i \in Len(issued) + 1 .. Len(issued') :
                    /\ issued'[i].test = current
                    /\ pc = issued'[i].on \o
                         (IF issued'[i].step = "fetch" THEN "_pre" ELSE "_query")
      ]_vars

C21_Witness ==
    /\ pc = "append"
    /\ current = 2
    /\ test_cases[1].name = "t1"
    /\ test_cases[2].name = "t3"
    /\ Len(results) = 1
    /\ Len(issued) = 5
    /\ issued[1].step = "fetch" /\ issued[1].on = "source" /\ issued[1].test = 1
    /\ issued[2].step = "query" /\ issued[2].on = "source" /\ issued[2].test = 1
    /\ issued[3].step = "query" /\ issued[3].on = "target" /\ issued[3].test = 1
    /\ issued[4].step = "fetch" /\ issued[4].on = "target" /\ issued[4].test = 2
    /\ issued[5].step = "query" /\ issued[5].on = "target" /\ issued[5].test = 2

\* C22: one record per test. When no connector query raises, run returns
\* exactly one record per declared test case, in declaration order, the i-th
\* record carrying the name, the severity, the source value, the target value
\* and the status of the i-th test case, the status being PASS or FAIL; run
\* never produces INVALID.
C22_OneRecordPerTest ==
    /\ (pc \in {"returned", "raised"} /\ FailedQueries = {})
          => /\ pc = "returned"
             /\ result = Ok(results)
             /\ Len(results) = Len(test_cases)
    /\ Len(results) <= Len(test_cases)
    /\ \A i \in DOMAIN results :
          LET cfg == test_cases[i].config
          IN  /\ results[i].test_name = test_cases[i].name
              /\ results[i].severity =
                    (IF "severity" \in DOMAIN cfg THEN cfg.severity ELSE None)
              /\ "source" \notin DOMAIN cfg => results[i].source_value = None
              /\ "target" \notin DOMAIN cfg => results[i].target_value = None
              /\ results[i].status \in {PASS, FAIL}
              /\ Ok(results[i].status) =
                    compare_values(results[i].source_value,
                                   results[i].target_value, cfg)
    /\ (pc = "test" /\ current > 1)
          => /\ Len(results) = current - 1
             /\ results[current - 1].source_value = source_value
             /\ results[current - 1].target_value = target_value
             /\ results[current - 1].status = status

C22_Witness ==
    /\ pc = "returned"
    /\ FailedQueries = {}
    /\ Len(results) = 2
    /\ results[1].test_name = "t1"
    /\ results[1].severity = Critical
    /\ results[1].source_value = PyInt(1)
    /\ results[1].target_value = PyInt(2)
    /\ results[1].status = FAIL
    /\ results[2].test_name = "t2"
    /\ results[2].severity = None
    /\ results[2].source_value = PyInt(2)
    /\ results[2].status = PASS

\* the rules for a source value against a target value: equality, then the
\* threshold
SourceVersusTarget(source, target, config) ==
    LET comparisons == Get(config, "comparisons", EmptyDict)
    IN  IF PyEq(source, target) THEN Ok(PASS)
        ELSE IF comparisons.k # "dict" THEN Exc("AttributeError")
        ELSE LET threshold == Get(comparisons.d, "threshold", None)
             IN  IF Truthy(threshold) THEN ThresholdRules(source, target, threshold)
                 ELSE Ok(FAIL)

\* C25: the source-only rule is used only for tests without a target block.
\* For every test case that declares a target block the verdict recorded by
\* run is decided by the rules for source against target (equality, then
\* threshold), never by source.expected or the truthiness of the source
\* value, whatever the target query returns, no rows and a NULL first column
\* included.
C25_SourceOnlyWithoutTargetBlock ==
    \A i \in DOMAIN results :
        "target" \in DOMAIN test_cases[i].config
        => Ok(results[i].status) =
              SourceVersusTarget(results[i].source_value,
                                 results[i].target_value, test_cases[i].config)

----------------------------------------------------------------------------
(* Properties of the connectors *)

\* the places of the log where the connector of side on did op
EventsOf(on, op) ==
    {i \in DOMAIN events : events[i].on = on /\ events[i].op = op}

\* the connector of side on did nothing between places i and j
NextOf(on, i, j) ==
    /\ i < j
    /\ events[j].on = on
    /\ \A m \in DOMAIN events : (i < m /\ m < j) => events[m].on # on

\* C29: lazy connect at most once. For either connector, over any sequence
\* of execute_query calls with no close() in between, connect() is invoked
\* before the first query is issued and never again once it has succeeded;
\* if connect() fails the connector stays unconnected and the next
\* execute_query attempts connect() again.
C29_LazyConnectOnce ==
    \A on \in Sides :
        /\ \A q \in EventsOf(on, "query") :
              \E c \in EventsOf(on, "connect") : c < q /\ events[c].ok
        /\ \A c \in EventsOf(on, "connect") : \A d \in EventsOf(on, "connect") :
              (c < d /\ events[c].ok)
              => \E x \in EventsOf(on, "close") : c < x /\ x < d
        /\ \A c \in EventsOf(on, "connect") :
              ~events[c].ok
              => /\ \A j \in DOMAIN events :
                       NextOf(on, c, j) => events[j].op = "connect"
                 /\ (\A j \in DOMAIN events : j > c => events[j].on # on)
                       => connection[on] = None
        /\ (call.op = "execute_query" /\ call.on = on)
              => /\ EventsOf(on, "connect") # {}
                 /\ result.ok => connection[on] # None

C29_Witness ==
    /\ Len(events) = 5
    /\ events[1] = Event("source", "connect", FALSE)
    /\ events[2] = Event("source", "connect", TRUE)
    /\ events[3] = Event("source", "query", TRUE)
    /\ events[4] = Event("source", "query", FALSE)
    /\ events[5] = Event("source", "query", TRUE)
    /\ connection["source"] = Handle(TRUE)
    /\ connection["target"] = None

\* C30: connectors are not released by the run. run never invokes close()
\* on the source or the target connector, on the normal return path or when
\* a query raises, so every connector that connected during the run is
\* still open when run ends.
C30_ConnectorsNotReleased ==
    \A on \in Sides :
        /\ EventsOf(on, "close") = {}
        /\ connection[on] # Handle(FALSE)
        /\ (\E c \in EventsOf(on, "connect") : events[c].ok)
              <=> connection[on] = Handle(TRUE)

C30_Witness ==
    /\ pc = "returned"
    /\ Len(results) = 2
    /\ connection = [on \in Sides |-> Handle(TRUE)]
    /\ \E c \in EventsOf("target", "connect") : ~events[c].ok

----------------------------------------------------------------------------
(* Properties of the summary *)

\* the places of the results with the status
WithStatus(st) == {i \in DOMAIN results : results[i].status = st}

\* the summary is constructed, with or without error
Summarized == pc = "summarized"

\* C23: summary counts partition the results. For every result list whose
\* statuses are in {PASS, FAIL, INVALID}, ExecutionSummary has passed = number
\* of PASS records, failed = number of FAIL records, invalid = number of
\* INVALID records, and passed + failed + invalid = total_tests = length of
\* the list; with zero results pass_percentage and fail_percentage are both
\* 0 and no division error occurs.
C23_CountsPartition ==
    Summarized
    => /\ summary.ok
       /\ summary.v.passed = Cardinality(WithStatus(PASS))
       /\ summary.v.failed = Cardinality(WithStatus(FAIL))
       /\ summary.v.invalid = Cardinality(WithStatus(INVALID))
       /\ summary.v.total_tests = Len(results)
       /\ summary.v.passed + summary.v.failed + summary.v.invalid
             = summary.v.total_tests
       /\ (results = <<>> /\ call.op \in {"pass_percentage", "fail_percentage"})
             => result = Ok(FloatZero)

\* the failed records whose severity is critical in any case of letters
CriticalFailures ==
    {i \in WithStatus(FAIL) :
        /\ results[i].severity.k = "str"
        /\ Lower(results[i].severity.s) = <<"c", "r", "i", "t", "i", "c", "a", "l">>}

\* C24: the critical-failure count over optional severity. For every result
\* list that run can return, records of failed tests that declare no
\* severity included, ExecutionSummary is constructed without error and
\* critical_failed is the number of FAIL records whose severity equals
\* "critical" case-insensitively, so critical_failed <= failed.
C24_CriticalFailedCount ==
    Summarized
    => /\ summary.ok
       /\ summary.v.critical_failed = Cardinality(CriticalFailures)
       /\ summary.v.critical_failed <= summary.v.failed

====
